---- MODULE Spec2Model ----
(***************************************************************************)
(* Scouty: CSV ingestion (scouty/core/parser.py), the Player record        *)
(* (scouty/core/player.py) and the insight modules, as state machines.     *)
(*                                                                         *)
(* A Python str is a sequence of tokens.  A token is one character, or a   *)
(* run of characters that the code only ever handles as a whole (a column  *)
(* name, a position code, a player name, a JSON key).  None is the value   *)
(* csv.DictReader gives a column that a short row does not reach.          *)
(***************************************************************************)
EXTENDS Integers, Sequences, FiniteSets, TLC

VARIABLES
    pc,           \* parse_players_csv: "validate", "detect", "rows", "done", "raised"
    file_status,  \* what _validate_file_path finds at the path
    header,       \* the first record of the file, a sequence of column names
    rows,         \* the data rows the csv reader has yielded so far
    players,      \* parse_players_csv: the list `players`
    diagnostics,  \* the ids named by the "Error parsing player" lines printed so far
    parsed,       \* per row read, the row parser applied to it and its outcome
    is_youth_format,  \* parse_players_csv: the flag set from the first line
    col_indices,  \* parse_players_csv: the youth schema's column indices
    call,         \* a call of a function on its own: [fn, ...arguments]
    result,       \* what that call returned
    frames        \* the frames of the call that have not returned, outermost first

vars == <<pc, file_status, header, rows, players, diagnostics, parsed,
          is_youth_format, col_indices, call, result, frames>>
parserVars == <<pc, file_status, header, rows, players, diagnostics, parsed,
                is_youth_format, col_indices>>
callVars == <<call, result, frames>>

----------------------------------------------------------------------------
(* Python str and int()                                                    *)

None == <<"<None>">>

Digits == {"0", "1", "2", "3", "4", "5", "6", "7", "8", "9"}

DigitVal(c) ==
    CASE c = "0" -> 0 [] c = "1" -> 1 [] c = "2" -> 2 [] c = "3" -> 3
      [] c = "4" -> 4 [] c = "5" -> 5 [] c = "6" -> 6 [] c = "7" -> 7
      [] c = "8" -> 8 [] c = "9" -> 9

\* A run of MAX_JSON_SIZE spaces, kept as one token.
Pad == "<pad>"

IsSpace(c) == c \in {" ", Pad}

RECURSIVE LStrip(_)
LStrip(s) == IF s # <<>> /\ IsSpace(Head(s)) THEN LStrip(Tail(s)) ELSE s

RECURSIVE RStrip(_)
RStrip(s) ==
    IF s # <<>> /\ IsSpace(s[Len(s)]) THEN RStrip(SubSeq(s, 1, Len(s) - 1)) ELSE s

\* str.strip()
Strip(s) == RStrip(LStrip(s))

RECURSIVE DigitsValue(_)
DigitsValue(s) ==
    IF s = <<>> THEN 0
    ELSE 10 * DigitsValue(SubSeq(s, 1, Len(s) - 1)) + DigitVal(s[Len(s)])

AllDigits(s) == s # <<>> /\ \A i \in 1..Len(s) : s[i] \in Digits

\* int(x) for a str or None: surrounding whitespace is dropped, one sign is
\* allowed, the rest must be decimal digits.  [exc, val]: exc is "" when the
\* conversion succeeds, else the exception's class.
IntOf(x) ==
    IF x = None THEN [exc |-> "TypeError", val |-> 0]
    ELSE LET t == Strip(x)
             signed == t # <<>> /\ Head(t) \in {"-", "+"}
             body == IF signed THEN Tail(t) ELSE t
         IN  IF AllDigits(body)
             THEN [exc |-> "",
                   val |-> IF signed /\ Head(t) = "-" THEN 0 - DigitsValue(body)
                           ELSE DigitsValue(body)]
             ELSE [exc |-> "ValueError", val |-> 0]

\* `sub in s` for a one-character sub
Contains(s, c) == \E i \in 1..Len(s) : s[i] = c

\* s.split(c)[0]
RECURSIVE SplitFirst(_, _)
SplitFirst(s, c) ==
    IF s = <<>> \/ Head(s) = c THEN <<>>
    ELSE <<Head(s)>> \o SplitFirst(Tail(s), c)

----------------------------------------------------------------------------
(* parser.py: parse_skill_value, the youth schema's skill cell             *)

\* try: return int(x) / except: return 0
IntOrZero(x) == IF IntOf(x).exc = "" THEN IntOf(x).val ELSE 0

\* The cell's second part taken as the current value.
parse_skill_value_potential(value) ==
    IF value = <<>> \/ Strip(value) = <<>> \/ value = <<"?">> \/ value = <<"/", "?">>
    THEN [exc |-> "", val |-> 0]
    ELSE LET parts0 == SplitFirst(value, "/")
             parts1 == SplitFirst(SubSeq(value, Len(parts0) + 2, Len(value)), "/")
         IN  IF Contains(value, "/") /\ parts0 # <<>> /\ parts0 # <<"?">>
             THEN [exc |-> "", val |-> IntOrZero(parts1)]
             ELSE [exc |-> "", val |-> IntOrZero(value)]

parse_skill_value(value) ==
    IF value = <<>> \/ Strip(value) = <<>> \/ value = <<"?">> \/ value = <<"/", "?">>
    THEN [exc |-> "", val |-> 0]
    ELSE LET parts0 == SplitFirst(value, "/")
         IN  IF Contains(value, "/") /\ parts0 # <<>> /\ parts0 # <<"?">>
             THEN [exc |-> "", val |-> IntOrZero(parts0)]
             ELSE [exc |-> "", val |-> IntOrZero(value)]

MaxCellLen == 3

SkillChars == {"3", "4", "7", "?", "/", " ", "-", "x"}

RECURSIVE StringsUpTo(_, _)
StringsUpTo(chars, n) ==
    IF n = 0 THEN {<<>>}
    ELSE LET shorter == StringsUpTo(chars, n - 1)
         IN  shorter \cup {Append(s, c) : s \in shorter, c \in chars}

SkillCells == StringsUpTo(SkillChars, MaxCellLen)

Pending == [exc |-> "<pending>", val |-> 0]

PendingStr == "<pending>"

ParserIdle ==
    /\ pc = "idle"
    /\ file_status = "ok"
    /\ header = <<>>
    /\ rows = <<>>
    /\ players = <<>>
    /\ diagnostics = <<>>
    /\ parsed = <<>>
    /\ is_youth_format = FALSE
    /\ col_indices = <<>>

InitSkillValue ==
    /\ ParserIdle
    /\ call \in {[fn |-> "parse_skill_value", value |-> v] : v \in SkillCells}
    /\ result = Pending
    /\ frames = <<>>

CallParseSkillValue ==
    /\ call.fn = "parse_skill_value"
    /\ result = Pending
    /\ result' = parse_skill_value(call.value)
    /\ UNCHANGED <<call, frames, parserVars>>

SpecSkillValue == InitSkillValue /\ [][CallParseSkillValue]_vars

\* C6: the youth skill-cell parser returns for every cell, never raising: 0 for
\* the empty cell, "?" and "/?"; for a cell holding "/", the integer before the
\* first "/" (0 when that part is empty, "?" or no integer); for a cell that is
\* an integer, that integer; 0 for every other cell.
C6_SkillCellPolicy ==
    (call.fn = "parse_skill_value" /\ result # Pending) =>
        LET v == call.value
            a == SplitFirst(v, "/")
            expected ==
                CASE v \in {<<>>, <<"?">>, <<"/", "?">>} -> 0
                  [] Contains(v, "/") ->
                        IF a = <<>> \/ a = <<"?">> THEN 0
                        ELSE IF IntOf(a).exc = "" THEN IntOf(a).val ELSE 0
                  [] ~Contains(v, "/") /\ IntOf(v).exc = "" -> IntOf(v).val
                  [] OTHER -> 0
        IN  result = [exc |-> "", val |-> expected]

\* "3/4" has been parsed, to 3.
C6_Witness ==
    /\ call.fn = "parse_skill_value"
    /\ call.value = <<"3", "/", "4">>
    /\ result = [exc |-> "", val |-> 3]

----------------------------------------------------------------------------
(* player.py: Position and Player                                          *)

\* class Position(Enum): the member names
Position == {"GK", "CD", "WB", "IM", "WI", "FW"}

\* dict.get(key, default)
Get(d, key, default) == IF key \in DOMAIN d THEN d[key] ELSE default

Max2(a, b) == IF a >= b THEN a ELSE b

Max3(a, b, c) == Max2(a, Max2(b, c))

\* defending tested against scoring as well.
get_best_position_strict(self) ==
    IF Get(self.skills, "goalkeeping", 0) > 10 THEN "GK"
    ELSE LET defending == Get(self.skills, "defending", 0)
             playmaking == Get(self.skills, "playmaking", 0)
             winger == Get(self.skills, "winger", 0)
             scoring == Get(self.skills, "scoring", 0)
         IN  IF scoring > Max3(defending, playmaking, winger) THEN "FW"
             ELSE IF defending > Max3(playmaking, winger, scoring) THEN "CD"
             ELSE IF winger > playmaking THEN "WI"
             ELSE "IM"

get_best_position(self) ==
    IF Get(self.skills, "goalkeeping", 0) > 10 THEN "GK"
    ELSE LET defending == Get(self.skills, "defending", 0)
             playmaking == Get(self.skills, "playmaking", 0)
             winger == Get(self.skills, "winger", 0)
             scoring == Get(self.skills, "scoring", 0)
         IN  IF scoring > Max3(defending, playmaking, winger) THEN "FW"
             ELSE IF defending > Max2(playmaking, winger) THEN "CD"
             ELSE IF winger > playmaking THEN "WI"
             ELSE "IM"

MaxOutfield == 3

\* A skill the map does not hold, or its level.
Absent == 0 - 1

SkillsOf(gk, d, p, w, s) ==
    LET level == [k \in {"goalkeeping", "defending", "playmaking", "winger", "scoring"} |->
                    CASE k = "goalkeeping" -> gk [] k = "defending" -> d
                      [] k = "playmaking" -> p [] k = "winger" -> w [] k = "scoring" -> s]
    IN  [k \in {n \in DOMAIN level : level[n] # Absent} |-> level[k]]

OutfieldLevels == {Absent} \cup 0..MaxOutfield

SkillMaps ==
    {SkillsOf(gk, d, p, w, s) : gk \in {Absent, 10, 11},
        d \in OutfieldLevels, p \in OutfieldLevels,
        w \in OutfieldLevels, s \in OutfieldLevels}

InitBestPosition ==
    /\ ParserIdle
    /\ call \in {[fn |-> "get_best_position", self |-> [skills |-> m]] : m \in SkillMaps}
    /\ result = PendingStr
    /\ frames = <<>>

CallGetBestPosition ==
    /\ call.fn = "get_best_position"
    /\ result = PendingStr
    /\ result' = get_best_position(call.self)
    /\ UNCHANGED <<call, frames, parserVars>>

SpecBestPosition == InitBestPosition /\ [][CallGetBestPosition]_vars

\* C9 as claimed: GoalKeeper when goalkeeping > 10; otherwise scoring, defending
\* and winger are each tested, in that order, strictly against the maximum of the
\* other three outfield skills; InnerMidfielder when none strictly dominates.
C9_Claimed ==
    (call.fn = "get_best_position" /\ result # PendingStr) =>
        LET sk == call.self.skills
            d == Get(sk, "defending", 0)
            p == Get(sk, "playmaking", 0)
            w == Get(sk, "winger", 0)
            s == Get(sk, "scoring", 0)
        IN  result =
              CASE Get(sk, "goalkeeping", 0) > 10 -> "GK"
                [] OTHER ->
                     IF s > d /\ s > p /\ s > w THEN "FW"
                     ELSE IF d > s /\ d > p /\ d > w THEN "CD"
                     ELSE IF w > s /\ w > d /\ w > p THEN "WI"
                     ELSE "IM"

\* C9, amended: GoalKeeper exactly when goalkeeping > 10.  Otherwise Forward
\* exactly when scoring is strictly above defending, playmaking and winger;
\* CentralDefender exactly when defending is strictly above playmaking and winger
\* and at least scoring; Winger exactly when winger is strictly above playmaking
\* and at least defending and scoring; InnerMidfielder in every other case.
C9_BestPosition ==
    (call.fn = "get_best_position" /\ result # PendingStr) =>
        LET sk == call.self.skills
            gk == Get(sk, "goalkeeping", 0)
            d == Get(sk, "defending", 0)
            p == Get(sk, "playmaking", 0)
            w == Get(sk, "winger", 0)
            s == Get(sk, "scoring", 0)
        IN  /\ result \in Position
            /\ result = "GK" <=> gk > 10
            /\ result = "FW" <=> (gk <= 10 /\ s > d /\ s > p /\ s > w)
            /\ result = "CD" <=> (gk <= 10 /\ d > p /\ d > w /\ d >= s)
            /\ result = "WI" <=> (gk <= 10 /\ w > p /\ w >= d /\ w >= s)
            /\ result = "IM" <=>
                  (gk <= 10 /\ ~(s > d /\ s > p /\ s > w)
                      /\ ~(d > p /\ d > w) /\ ~(w > p))

\* defending level with scoring, above winger and playmaking: CentralDefender.
C9_Witness ==
    /\ call.fn = "get_best_position"
    /\ Get(call.self.skills, "goalkeeping", 0) <= 10
    /\ Get(call.self.skills, "defending", 0) = 2
    /\ Get(call.self.skills, "scoring", 0) = 2
    /\ Get(call.self.skills, "winger", 0) = 1
    /\ Get(call.self.skills, "playmaking", 0) = 1
    /\ result = "CD"

----------------------------------------------------------------------------
(* Python float(), len() and json.loads() on a cell                        *)

DigitsOrEmpty(s) == \A i \in 1..Len(s) : s[i] \in Digits

\* float(x) for a str or None.  The value is kept in tenths: the cells of the
\* model carry at most one fractional digit, and no exponent, "inf" or "nan".
FloatOf(x) ==
    IF x = None THEN [exc |-> "TypeError", val |-> 0]
    ELSE LET t == Strip(x)
             signed == t # <<>> /\ Head(t) \in {"-", "+"}
             body == IF signed THEN Tail(t) ELSE t
             whole == SplitFirst(body, ".")
             frac == IF Contains(body, ".")
                     THEN SubSeq(body, Len(whole) + 2, Len(body)) ELSE <<>>
             ok == /\ DigitsOrEmpty(whole) /\ DigitsOrEmpty(frac)
                   /\ whole # <<>> \/ frac # <<>>
                   /\ Len(frac) <= 1
             tenths == 10 * DigitsValue(whole) + DigitsValue(frac)
         IN  IF ok
             THEN [exc |-> "", val |-> IF signed /\ Head(t) = "-" THEN 0 - tenths ELSE tenths]
             ELSE [exc |-> "ValueError", val |-> 0]

\* parser.py:13
MAX_JSON_SIZE == 10 * 1024 * 1024

\* A run of "[" deeper than the interpreter's recursion limit, kept as one token.
Deep == "<deep>"

\* The JSON object keys of the model, as tokens, with the str each decodes to.
JsonKeyName ==
    ("\"defending\"" :> "defending") @@ ("\"scoring\"" :> "scoring")
        @@ ("\"goalkeeping\"" :> "goalkeeping")

TokenLen(tok) ==
    CASE tok = Pad -> MAX_JSON_SIZE
      [] tok = Deep -> 100000
      [] tok = "\"defending\"" -> 11
      [] tok = "\"scoring\"" -> 9
      [] tok = "\"goalkeeping\"" -> 13
      [] tok = "null" -> 4
      [] OTHER -> 1

\* len(s)
RECURSIVE StrLen(_)
StrLen(s) == IF s = <<>> THEN 0 ELSE TokenLen(Head(s)) + StrLen(Tail(s))

EmptyMap == [k \in {} |-> 0]

\* A JSON integer: an optional "-", then digits with no leading zero.
JsonInt(s) ==
    LET body == IF s # <<>> /\ Head(s) = "-" THEN Tail(s) ELSE s
    IN  AllDigits(body) /\ (Len(body) = 1 \/ Head(body) # "0")

\* The members of a JSON object, between its braces: key ":" integer, separated
\* by ",".  A key given twice keeps its last value.
RECURSIVE JsonMembers(_)
JsonMembers(s) ==
    LET member == SplitFirst(s, ",")
        last == ~Contains(s, ",")
        rest == IF last THEN [ok |-> TRUE, val |-> EmptyMap]
                ELSE JsonMembers(SubSeq(s, Len(member) + 2, Len(s)))
        ok == /\ Len(member) >= 3
              /\ member[1] \in DOMAIN JsonKeyName
              /\ member[2] = ":"
              /\ JsonInt(SubSeq(member, 3, Len(member)))
        key == JsonKeyName[member[1]]
        val == IntOf(SubSeq(member, 3, Len(member))).val
    IN  IF ok /\ rest.ok
        THEN [ok |-> TRUE,
              val |-> [k \in DOMAIN rest.val \cup {key} |->
                          IF k \in DOMAIN rest.val THEN rest.val[k] ELSE val]]
        ELSE [ok |-> FALSE, val |-> EmptyMap]

\* json.loads(s) for a str: [exc, isdict, val].  Whitespace around the value
\* is allowed.
JsonLoads(s) ==
    LET t == Strip(s)
        inner == SubSeq(t, 2, Len(t) - 1)
    IN  IF t = <<Deep>> THEN [exc |-> "RecursionError", isdict |-> FALSE, val |-> EmptyMap]
        ELSE IF t = <<"{", "}">> THEN [exc |-> "", isdict |-> TRUE, val |-> EmptyMap]
        ELSE IF Len(t) >= 2 /\ Head(t) = "{" /\ t[Len(t)] = "}" /\ JsonMembers(inner).ok
             THEN [exc |-> "", isdict |-> TRUE, val |-> JsonMembers(inner).val]
        ELSE IF t \in {<<"[", "]">>, <<"null">>} \/ JsonInt(t)
             THEN [exc |-> "", isdict |-> FALSE, val |-> EmptyMap]
        ELSE [exc |-> "JSONDecodeError", isdict |-> FALSE, val |-> EmptyMap]

\* str(x)
Str(x) == IF x = None THEN <<"None">> ELSE x

----------------------------------------------------------------------------
(* parser.py: the row parsers                                              *)

\* What a row parser gives: a Player, None, or an exception.
NoPlayer == [id |-> None]

Return(p) == [exc |-> "", player |-> p]

ReturnNone == [exc |-> "", player |-> NoPlayer]

Raise(e) == [exc |-> e, player |-> NoPlayer]

\* parser.py:164
MinAge == 15

MaxAge == 50

\* Validation of the age alone.
validate_age_only(age, form, stamina, experience, leadership) ==
    IF age < MinAge \/ age > MaxAge THEN "ValueError" ELSE ""

\* The exception's class, "" when every range holds.
_validate_player_data(age, form, stamina, experience, leadership) ==
    IF age < MinAge \/ age > MaxAge THEN "ValueError"
    ELSE IF form < 1 \/ form > 8 THEN "ValueError"
    ELSE IF stamina < 0 \/ stamina > 100 THEN "ValueError"
    ELSE IF experience < 0 \/ experience > 20 THEN "ValueError"
    ELSE IF leadership < 0 \/ leadership > 20 THEN "ValueError"
    ELSE ""

\* The first exception of a sequence of conversions, "" when none failed.
FirstExc(convs) ==
    IF \A i \in 1..Len(convs) : convs[i].exc = "" THEN ""
    ELSE convs[CHOOSE i \in 1..Len(convs) :
                 convs[i].exc # "" /\ \A j \in 1..(i - 1) : convs[j].exc = ""].exc

_parse_english_format(row) ==
    LET skills_str == Get(row, "skills", <<"{", "}">>)
    IN  IF skills_str = None THEN Raise("TypeError")
        ELSE IF StrLen(skills_str) > MAX_JSON_SIZE THEN Raise("ValueError")
        ELSE IF JsonLoads(skills_str).exc = "RecursionError" THEN Raise("RecursionError")
        ELSE
        LET js == JsonLoads(skills_str)
            skills == IF js.exc = "" /\ js.isdict THEN js.val ELSE EmptyMap
            age == IntOf(Get(row, "age", <<"0">>))
            salary == FloatOf(Get(row, "salary", <<"0">>))
            tsi == IntOf(Get(row, "tsi", <<"0">>))
            form == IntOf(Get(row, "form", <<"5">>))
            stamina == IntOf(Get(row, "stamina", <<"0">>))
            experience == IntOf(Get(row, "experience", <<"0">>))
            leadership == IntOf(Get(row, "leadership", <<"0">>))
            position_key == Get(row, "position", <<"IM">>)
        IN  IF FirstExc(<<age, salary, tsi, form, stamina, experience, leadership>>) # ""
            THEN Raise("ValueError")
            ELSE IF _validate_player_data(age.val, form.val, stamina.val,
                                          experience.val, leadership.val) # ""
            THEN Raise("ValueError")
            ELSE Return([id |-> Str(Get(row, "id", <<>>)),
                         name |-> Str(Get(row, "name", <<>>)),
                         age |-> age.val,
                         position |-> IF Len(position_key) = 1 /\ position_key[1] \in Position
                                      THEN position_key[1] ELSE "IM",
                         skills |-> skills,
                         salary |-> salary.val,
                         tsi |-> tsi.val,
                         form |-> form.val,
                         stamina |-> stamina.val,
                         experience |-> experience.val,
                         leadership |-> leadership.val])

\* parser.py:17
POSITION_MAP ==
    ("GO" :> "GK") @@ ("ZC" :> "CD") @@ ("LD" :> "WB") @@ ("LE" :> "WB")
        @@ ("AD" :> "WB") @@ ("AE" :> "WB") @@ ("MC" :> "IM") @@ ("MD" :> "IM")
        @@ ("ME" :> "IM") @@ ("AT" :> "FW") @@ ("PD" :> "FW") @@ ("PE" :> "FW")

\* POSITION_MAP.get(pos_code, 'IM') for a cell or None
PositionOfCode(pos_code) ==
    IF Len(pos_code) = 1 /\ pos_code[1] \in DOMAIN POSITION_MAP
    THEN POSITION_MAP[pos_code[1]] ELSE "IM"

\* Lines 206-220 with each cell defaulted on its own, the others keeping their
\* converted values.
coerce_each_cell(row) ==
    LET salary == FloatOf(Get(row, "Salário", <<"0">>))
        tsi == IntOf(Get(row, "TSI", <<"0">>))
        form == IntOf(Get(row, "Forma", <<"5">>))
        stamina == IntOf(Get(row, "Resistência", <<"0">>))
        experience == IntOf(Get(row, "Experiência", <<"0">>))
        leadership == IntOf(Get(row, "Liderança", <<"0">>))
    IN  [salary |-> IF salary.exc = "" THEN salary.val ELSE 0,
         tsi |-> IF tsi.exc = "" THEN tsi.val ELSE 0,
         form |-> IF form.exc = "" THEN form.val ELSE 5,
         stamina |-> IF stamina.exc = "" THEN stamina.val ELSE 0,
         experience |-> IF experience.exc = "" THEN experience.val ELSE 0,
         leadership |-> IF leadership.exc = "" THEN leadership.val ELSE 0]

\* Lines 206-220: the six conversions share one try block, so the first failure
\* gives every one of the six its default.
coerce_attributes(row) ==
    LET salary == FloatOf(Get(row, "Salário", <<"0">>))
        tsi == IntOf(Get(row, "TSI", <<"0">>))
        form == IntOf(Get(row, "Forma", <<"5">>))
        stamina == IntOf(Get(row, "Resistência", <<"0">>))
        experience == IntOf(Get(row, "Experiência", <<"0">>))
        leadership == IntOf(Get(row, "Liderança", <<"0">>))
    IN  IF FirstExc(<<salary, tsi, form, stamina, experience, leadership>>) = ""
        THEN [salary |-> salary.val, tsi |-> tsi.val, form |-> form.val,
              stamina |-> stamina.val, experience |-> experience.val,
              leadership |-> leadership.val]
        ELSE [salary |-> 0, tsi |-> 0, form |-> 5, stamina |-> 0,
              experience |-> 0, leadership |-> 0]

\* Lines 223-230 resetting all six attributes when validation fails.
reset_all_if_invalid(age, attrs) ==
    IF _validate_player_data(age, attrs.form, attrs.stamina,
                             attrs.experience, attrs.leadership) = ""
    THEN attrs
    ELSE [salary |-> 0, tsi |-> 0, form |-> 5, stamina |-> 0,
          experience |-> 0, leadership |-> 0]

\* Lines 223-230: when validation fails, form, stamina, experience and
\* leadership are reset; salary and tsi, and age, are left as they are.
reset_if_invalid(age, attrs) ==
    IF _validate_player_data(age, attrs.form, attrs.stamina,
                             attrs.experience, attrs.leadership) = ""
    THEN attrs
    ELSE [attrs EXCEPT !.form = 5, !.stamina = 0, !.experience = 0,
                       !.leadership = 0]

_parse_portuguese_format(row) ==
    LET age == IntOf(Get(row, "Idade", <<"0">>))
        age1 == IF age.exc = "" THEN age.val ELSE 0
        skillCells == <<IntOf(Get(row, "Goleiro", <<"0">>)),
                        IntOf(Get(row, "Defesa", <<"0">>)),
                        IntOf(Get(row, "Armação", <<"0">>)),
                        IntOf(Get(row, "Ala", <<"0">>)),
                        IntOf(Get(row, "Finalização", <<"0">>)),
                        IntOf(Get(row, "Bola Parada", <<"0">>))>>
        attrs == reset_if_invalid(age1, coerce_attributes(row))
    IN  IF FirstExc(skillCells) # "" THEN Raise(FirstExc(skillCells))
        ELSE Return([id |-> Str(Get(row, "ID do jogador", <<>>)),
                     name |-> Get(row, "Nome", <<>>),
                     age |-> age1,
                     position |-> PositionOfCode(Get(row, "Posição na última partida", <<"MC">>)),
                     skills |-> [k \in {"goalkeeping", "defending", "playmaking",
                                        "winger", "scoring", "set_pieces"} |->
                                   CASE k = "goalkeeping" -> skillCells[1].val
                                     [] k = "defending" -> skillCells[2].val
                                     [] k = "playmaking" -> skillCells[3].val
                                     [] k = "winger" -> skillCells[4].val
                                     [] k = "scoring" -> skillCells[5].val
                                     [] k = "set_pieces" -> skillCells[6].val],
                     salary |-> attrs.salary,
                     tsi |-> attrs.tsi,
                     form |-> attrs.form,
                     stamina |-> attrs.stamina,
                     experience |-> attrs.experience,
                     leadership |-> attrs.leadership])

\* safe_get(index, default) of row: [exc, val].  A negative index counts from the
\* end of the row, as row[index] does.
safe_get(row, index, default) ==
    IF index < Len(row)
    THEN IF index < 0 - Len(row) THEN [exc |-> "IndexError", val |-> default]
         ELSE LET cell == IF index >= 0 THEN row[index + 1] ELSE row[Len(row) + index + 1]
              IN  [exc |-> "", val |-> IF cell = <<>> THEN default ELSE cell]
    ELSE [exc |-> "", val |-> default]

_parse_youth_portuguese_format_by_index(row, indices) ==
    LET id_idx == Get(indices, "id", 3)
        name_idx == Get(indices, "name", 2)
        age_idx == Get(indices, "age", 7)
        pos_idx == Get(indices, "position", 0 - 1)
        player_id == safe_get(row, id_idx, <<>>)
        name == safe_get(row, name_idx, <<>>)
        age == IntOrZero(safe_get(row, age_idx, <<"0">>).val)
        pos_code == safe_get(row, pos_idx, <<"MC">>)
        skill(key, idx) == parse_skill_value(safe_get(row, Get(indices, key, idx), <<"0">>).val)
    IN  IF player_id.val = <<>> \/ name.val = <<>> THEN ReturnNone
        ELSE IF pos_code.exc # "" THEN Raise(pos_code.exc)
        ELSE Return([id |-> player_id.val,
                     name |-> name.val,
                     age |-> age,
                     position |-> PositionOfCode(pos_code.val),
                     skills |-> [k \in {"goalkeeping", "defending", "playmaking",
                                        "winger", "scoring", "set_pieces"} |->
                                   CASE k = "goalkeeping" -> skill(k, 12).val
                                     [] k = "defending" -> skill(k, 14).val
                                     [] k = "playmaking" -> skill(k, 16).val
                                     [] k = "winger" -> skill(k, 18).val
                                     [] k = "scoring" -> skill(k, 22).val
                                     [] k = "set_pieces" -> skill(k, 24).val],
                     salary |-> 0,
                     tsi |-> 0,
                     form |-> 5,
                     stamina |-> 0,
                     experience |-> 0,
                     leadership |-> 0])

----------------------------------------------------------------------------
(* parser.py: parse_players_csv                                            *)

YouthMarker == "Dias até poder promover"

\* csv.DictReader: the row as a dict over the header's names.  A name given
\* twice keeps its last column; a column the row does not reach is None.
DictRow(fieldnames, cells) ==
    [k \in {fieldnames[i] : i \in 1..Len(fieldnames)} |->
        LET i == CHOOSE i \in 1..Len(fieldnames) :
                    fieldnames[i] = k /\ \A j \in (i + 1)..Len(fieldnames) : fieldnames[j] # k
        IN  IF i <= Len(cells) THEN cells[i] ELSE None]

\* col_indices after the loop of lines 105-125 has seen the first n columns;
\* indices count from 0.
RECURSIVE ColIndicesUpTo(_, _)
ColIndicesUpTo(hdr, n) ==
    IF n = 0 THEN EmptyMap
    ELSE LET prev == ColIndicesUpTo(hdr, n - 1)
             col == hdr[n]
             set(key) == [k \in DOMAIN prev \cup {key} |-> IF k = key THEN n - 1 ELSE prev[k]]
         IN  CASE col = "ID do jogador" -> set("id")
               [] col = "Nome" -> set("name")
               [] col = "Idade" -> set("age")
               [] col = "Posição na última partida" -> set("position")
               [] col = "Goleiro" /\ "goalkeeping" \notin DOMAIN prev -> set("goalkeeping")
               [] col = "Defesa" /\ "defending" \notin DOMAIN prev -> set("defending")
               [] col = "Armação" /\ "playmaking" \notin DOMAIN prev -> set("playmaking")
               [] col = "Ala" /\ "winger" \notin DOMAIN prev -> set("winger")
               [] col = "Finalização" /\ "scoring" \notin DOMAIN prev -> set("scoring")
               [] col = "Bola Parada" /\ "set_pieces" \notin DOMAIN prev -> set("set_pieces")
               [] OTHER -> prev

ColIndices(hdr) == ColIndicesUpTo(hdr, Len(hdr))

\* The parser chosen by the row's own player id.
DictRowSchemaById(row) ==
    IF Get(row, "ID do jogador", None) \notin {None, <<>>} THEN "portuguese" ELSE "english"

\* Lines 142-146: the parser for a row of the DictReader branch.
DictRowSchema(row) == IF "ID do jogador" \in DOMAIN row THEN "portuguese" ELSE "english"

\* Line 151: row.get('ID do jogador') or row.get('id', 'unknown')
DictRowId(row) ==
    IF Get(row, "ID do jogador", None) \notin {None, <<>>}
    THEN row["ID do jogador"]
    ELSE Str(Get(row, "id", <<"unknown">>))

\* Lines 133-134
YouthRowId(row, indices) ==
    IF Get(indices, "id", 0) < Len(row) THEN row[Get(indices, "id", 0) + 1]
    ELSE <<"unknown">>

Outcome(r) ==
    IF r.exc # "" THEN "error" ELSE IF r.player = NoPlayer THEN "none" ELSE "player"

\* csv.field_size_limit(): the reader raises _csv.Error on a longer field.
CsvFieldLimit == 128 * 1024

FieldTooLarge(cells) == \E i \in 1..Len(cells) : StrLen(cells[i]) > CsvFieldLimit

\* `for row in reader` raises: the error is outside the row's try, line 156
\* turns it into RuntimeError and parse_players_csv returns nothing.
ReaderError(cells) ==
    /\ rows' = Append(rows, cells)
    /\ parsed' = Append(parsed, [schema |-> "", outcome |-> "reader_error"])
    /\ pc' = "raised"
    /\ UNCHANGED <<players, diagnostics>>

\* The body of either row loop (lines 128-136, 140-153) for one row: r is what
\* the row parser gave, id the id the except clause would print.
TryRow(row, r, schema, id) ==
    /\ rows' = Append(rows, row)
    /\ parsed' = Append(parsed, [schema |-> schema, outcome |-> Outcome(r)])
    /\ players' = IF Outcome(r) = "player" THEN Append(players, r.player) ELSE players
    /\ diagnostics' = IF Outcome(r) = "error" THEN Append(diagnostics, id) ELSE diagnostics
    /\ pc' = "rows"

(* The files of the model: a header, then rows of cells.                   *)

EnglishHeader ==
    <<"id", "name", "age", "position", "skills", "salary", "tsi", "form",
      "stamina", "experience", "leadership">>

\* An English file with only the name and age columns: every other field
\* takes the default of its row.get.
EnglishShortHeader == <<"name", "age">>

PortugueseHeader ==
    <<"Nome", "ID do jogador", "Idade", "Posição na última partida", "TSI", "Salário",
      "Forma", "Resistência", "Experiência", "Liderança", "Goleiro", "Defesa">>

\* The youth export gives each skill twice, current value first.  It also has
\* the player-ID column of the main-squad export.
YouthHeader ==
    <<"Nome", "ID do jogador", "Idade", YouthMarker, "Posição na última partida",
      "Goleiro", "Goleiro", "Defesa", "Defesa">>

\* A youth file without id, age and position columns: their indices default.
YouthBareHeader == <<"Goleiro", "Goleiro", "Nome", "Número", YouthMarker>>

Headers == {<<>>, EnglishHeader, EnglishShortHeader, PortugueseHeader, YouthHeader,
            YouthBareHeader}

SkillsJson15 == <<"{", "\"defending\"", ":", "1", "5", "}">>

SkillsJson25 == <<"{", "\"defending\"", ":", "2", "5", ",", "\"scoring\"", ":", "7", "}">>

EnglishRow(id, age, skills, salary, form) ==
    <<id, <<"Ana">>, age, <<"FW">>, skills, salary, <<"1", "0", "0", "0">>, form,
      <<"5", "0">>, <<"3">>, <<"4">>>>

\* Rows of the files parsed whole: good rows, a row that fails coercion, one out
\* of range, one with a skills cell above the reader's field limit, one cut
\* short after the name, one with a negative salary, one with skills nested too
\* deep to decode.
EnglishFileRows ==
    {EnglishRow(<<"1">>, <<"1", "9">>, SkillsJson15, <<"5", "0", "0">>, <<"6">>),
     EnglishRow(<<"2">>, <<"3", "5">>, <<"{", "}">>, <<"0">>, <<"5">>),
     EnglishRow(<<"3">>, <<"x">>, SkillsJson15, <<"5", "0", "0">>, <<"6">>),
     EnglishRow(<<"4">>, <<"1", "9">>, SkillsJson15, <<"5", "0", "0">>, <<"9">>),
     EnglishRow(<<"5">>, <<"1", "9">>, SkillsJson15 \o <<Pad>>, <<"5", "0", "0">>, <<"6">>),
     <<<<"6">>, <<"Ana">>>>,
     EnglishRow(<<"7">>, <<"1", "9">>, SkillsJson25, <<"-", "5">>, <<"6">>),
     EnglishRow(<<"8">>, <<"1", "9">>, <<Deep>>, <<"5", "0", "0">>, <<"6">>)}

EnglishShortFileRows ==
    {<<<<"Bo">>, <<"2", "0">>>>, <<<<"Cy">>, <<"x">>>>, <<<<"Di">>>>, <<<<"Ed">>, <<"9", "9">>>>}

PortugueseRow(id, age, tsi, salary, form, goleiro) ==
    <<<<"Rui">>, id, age, <<"ZC">>, tsi, salary, form, <<"5", "0">>, <<"3">>, <<"4">>,
      goleiro, <<"5">>>>

\* Good rows, a row whose form is no number, one whose form is out of range, one
\* whose age is, one with a skill cell that is no number, one cut short.
PortugueseFileRows ==
    {PortugueseRow(<<"1">>, <<"2", "5">>, <<"9", "0", "0">>, <<"5", "0", "0">>, <<"6">>, <<"7">>),
     PortugueseRow(<<"2">>, <<"3", "1">>, <<"8", "0", "0">>, <<"4", "0", "0">>, <<"x">>, <<"7">>),
     PortugueseRow(<<"3">>, <<"2", "5">>, <<"9", "0", "0">>, <<"5", "0", "0">>, <<"9">>, <<"7">>),
     PortugueseRow(<<"4">>, <<"9", "9">>, <<"9", "0", "0">>, <<"5", "0", "0">>, <<"6">>, <<"7">>),
     PortugueseRow(<<"5">>, <<"2", "5">>, <<"9", "0", "0">>, <<"5", "0", "0">>, <<"x">>, <<"x">>),
     PortugueseRow(<<>>, <<"2", "5">>, <<"9", "0", "0">>, <<"5", "0", "0">>, <<"6">>, <<"?">>),
     PortugueseRow(<<"6">>, <<"2", "5">>, <<"9", "0", "0">>, <<"5", "0", "0">>, <<"6">>, <<"2", "5">>),
     <<<<"Rui">>, <<"7">>, <<"2", "5">>>>}

YouthRow(name, id, age, goleiro) ==
    <<name, id, age, <<"3">>, <<"GO">>, goleiro, <<"4">>, <<"5", "/", "6">>, <<"6">>>>

\* Good rows, rows without a name or an id, a blank line, a row cut short
\* before the id, a row whose age is no number, a row without a name whose
\* skill cell is above the reader's field limit.
YouthFileRows ==
    {YouthRow(<<"Ana">>, <<"1">>, <<"1", "6">>, <<"3", "/", "4">>),
     YouthRow(<<"Bia">>, <<"2">>, <<"1", "7">>, <<"?">>),
     YouthRow(<<>>, <<"3">>, <<"1", "6">>, <<"3", "/", "4">>),
     YouthRow(<<"Eva">>, <<>>, <<"1", "6">>, <<"7">>),
     <<>>,
     <<<<"Lia">>>>,
     YouthRow(<<"Mel">>, <<"6">>, <<"x">>, <<"/", "?">>),
     YouthRow(<<>>, <<"8">>, <<"1", "6">>, <<"3", Pad>>)}

YouthBareFileRows ==
    {<<<<"3", "/", "4">>, <<"4">>, <<"Ana">>, <<"9">>, <<"2">>>>,
     <<<<"3", "/", "4">>, <<"4">>, <<>>, <<"9">>, <<"2">>>>,
     <<<<"3", "/", "4">>, <<"4">>, <<"Bia">>>>,
     <<>>}

\* The data rows a file with this header may hold.
FileRows(hdr) ==
    CASE hdr = EnglishHeader -> EnglishFileRows
      [] hdr = EnglishShortHeader -> EnglishShortFileRows
      [] hdr = PortugueseHeader -> PortugueseFileRows
      [] hdr = YouthHeader -> YouthFileRows
      [] hdr = YouthBareHeader -> YouthBareFileRows
      [] OTHER -> {}

MaxRows == 2

FileStatuses == {"ok", "missing", "not_a_file", "too_large", "not_utf8"}

Init ==
    /\ pc = "validate"
    /\ file_status \in FileStatuses
    /\ header \in IF file_status = "ok" THEN Headers ELSE {<<>>}
    /\ rows = <<>>
    /\ players = <<>>
    /\ diagnostics = <<>>
    /\ parsed = <<>>
    /\ is_youth_format = FALSE
    /\ col_indices = <<>>
    /\ call = [fn |-> "parse_players_csv"]
    /\ result = PendingStr
    /\ frames = <<>>

\* _validate_file_path: a missing path, a directory and a file above
\* MAX_FILE_SIZE each raise before anything is read.
ValidateFilePath ==
    /\ pc = "validate"
    /\ pc' = IF file_status \in {"missing", "not_a_file", "too_large"} THEN "raised" ELSE "detect"
    /\ UNCHANGED <<file_status, header, rows, players, diagnostics, parsed,
                   is_youth_format, col_indices, callVars>>

\* Lines 92-125: the first line decides the branch; the youth branch reads the
\* header and fills col_indices.  A file that is not UTF-8 raises
\* UnicodeDecodeError, a ValueError, which line 154 passes on.
DetectFormat ==
    /\ pc = "detect"
    /\ IF file_status = "not_utf8"
       THEN /\ pc' = "raised"
            /\ UNCHANGED <<is_youth_format, col_indices>>
       ELSE /\ pc' = "rows"
            /\ is_youth_format' = (\E i \in 1..Len(header) : header[i] = YouthMarker)
            /\ col_indices' = IF is_youth_format' THEN ColIndices(header) ELSE <<>>
    /\ UNCHANGED <<file_status, header, rows, players, diagnostics, parsed, callVars>>

\* Lines 127-136: one turn of the youth loop.
ParseYouthRow ==
    /\ pc = "rows"
    /\ is_youth_format
    /\ Len(rows) < MaxRows
    /\ \E row \in FileRows(header) :
          IF FieldTooLarge(row) THEN ReaderError(row)
          ELSE TryRow(row, _parse_youth_portuguese_format_by_index(row, col_indices),
                      "youth", YouthRowId(row, col_indices))
    /\ UNCHANGED <<file_status, header, is_youth_format, col_indices, callVars>>

\* Lines 139-153: one turn of the DictReader loop.  DictReader passes over
\* blank lines.
ParseDictRow ==
    /\ pc = "rows"
    /\ ~is_youth_format
    /\ Len(rows) < MaxRows
    /\ \E cells \in FileRows(header) \ {<<>>} :
          LET row == DictRow(header, cells)
          IN  IF FieldTooLarge(cells) THEN ReaderError(cells)
              ELSE TryRow(cells,
                          IF DictRowSchema(row) = "portuguese"
                          THEN _parse_portuguese_format(row)
                          ELSE _parse_english_format(row),
                          DictRowSchema(row), DictRowId(row))
    /\ UNCHANGED <<file_status, header, is_youth_format, col_indices, callVars>>

\* Line 159: the reader is exhausted.
ReturnPlayers ==
    /\ pc = "rows"
    /\ pc' = "done"
    /\ UNCHANGED <<file_status, header, rows, players, diagnostics, parsed,
                   is_youth_format, col_indices, callVars>>

Next ==
    \/ ValidateFilePath
    \/ DetectFormat
    \/ ParseYouthRow
    \/ ParseDictRow
    \/ ReturnPlayers

Spec == Init /\ [][Next]_vars

----------------------------------------------------------------------------
(* Claims about parse_players_csv                                          *)

HasColumn(hdr, name) == \E i \in 1..Len(hdr) : hdr[i] = name

\* The schema the first line and the header call for.
SchemaOfFile(hdr) ==
    IF HasColumn(hdr, YouthMarker) THEN "youth"
    ELSE IF HasColumn(hdr, "ID do jogador") THEN "portuguese"
    ELSE "english"

\* What parsing one row of a file with this header gives, taken on its own.
RowAlone(hdr, cells) ==
    IF FieldTooLarge(cells) THEN Raise("Error")
    ELSE CASE SchemaOfFile(hdr) = "youth" ->
                _parse_youth_portuguese_format_by_index(cells, ColIndices(hdr))
           [] SchemaOfFile(hdr) = "portuguese" -> _parse_portuguese_format(DictRow(hdr, cells))
           [] SchemaOfFile(hdr) = "english" -> _parse_english_format(DictRow(hdr, cells))

\* The players of the rows that parse, in the rows' order.
RECURSIVE ParseableRows(_, _)
ParseableRows(hdr, rs) ==
    IF rs = <<>> THEN <<>>
    ELSE LET r == RowAlone(hdr, Head(rs))
         IN  (IF Outcome(r) = "player" THEN <<r.player>> ELSE <<>>)
                 \o ParseableRows(hdr, Tail(rs))

\* C1: on a readable file, a row that cannot be parsed removes only itself: the
\* call does not fail, and the list it builds is the players of the rows that
\* parse, in file order.
C1_BadRowDropsOnlyItself ==
    file_status = "ok" =>
        /\ pc # "raised"
        /\ pc \in {"rows", "done"} => players = ParseableRows(header, rows)

InRange(p) ==
    /\ p.age >= 15 /\ p.age <= 50
    /\ p.form >= 1 /\ p.form <= 8
    /\ p.stamina >= 0 /\ p.stamina <= 100
    /\ p.experience >= 0 /\ p.experience <= 20
    /\ p.leadership >= 0 /\ p.leadership <= 20
    /\ \A k \in DOMAIN p.skills : p.skills[k] >= 0 /\ p.skills[k] <= 20
    /\ p.salary >= 0
    /\ p.tsi >= 0

\* C2: every Player in the list parse_players_csv builds has age 15-50, form 1-8,
\* stamina 0-100, experience and leadership 0-20, every skill 0-20, salary >= 0
\* and tsi >= 0.
C2_PlayersInRange == \A i \in 1..Len(players) : InRange(players[i])

\* The id or the name of a youth row is missing or empty.
Nameless(row, indices) ==
    \E i \in {Get(indices, "id", 3), Get(indices, "name", 2)} :
        i >= Len(row) \/ row[i + 1] = <<>>

\* C7: in a youth file a row whose id or name is missing or empty yields no
\* Player and is no error: the call goes on, nothing is printed for it, and a
\* file whose only row is such a row gives the empty list.
C7_NamelessRowIsNoError ==
    (is_youth_format /\ pc \in {"rows", "done", "raised"}) =>
        /\ \A i \in 1..Len(rows) : Nameless(rows[i], col_indices) => parsed[i].outcome = "none"
        /\ (\A i \in 1..Len(rows) : Nameless(rows[i], col_indices)) =>
              (pc # "raised" /\ players = <<>> /\ diagnostics = <<>>)

\* C8: every row that is parsed is parsed under the one schema of its file:
\* youth when the first line has the youth marker, whether or not the player-ID
\* column is there too; otherwise main-squad Portuguese when the header has the
\* player-ID column; otherwise English.
C8_OneSchemaPerFile ==
    \A i \in 1..Len(parsed) :
        parsed[i].outcome # "reader_error" => parsed[i].schema = SchemaOfFile(header)

\* Two rows of a youth file whose header also has the player-ID column, and
\* two rows of a main-squad file of which one has an empty player id.
C8_Witness ==
    /\ Len(parsed) = 2
    /\ \/ HasColumn(header, YouthMarker) /\ HasColumn(header, "ID do jogador")
          /\ parsed[1].schema = "youth" /\ parsed[2].schema = "youth"
       \/ header = PortugueseHeader /\ rows[1][2] = <<>>
          /\ parsed[1].schema = "portuguese" /\ parsed[2].schema = "portuguese"

----------------------------------------------------------------------------
(* The row parsers on their own, over rows that vary every field           *)

\* English rows: each cell a value that converts and is in range, one that
\* converts and is out of range where the field has a range, and one that does
\* not convert.  The skills cell: an object, an object with a level above 20, a
\* JSON value that is no object, text that is no JSON, an object followed by
\* MAX_JSON_SIZE spaces, MAX_JSON_SIZE spaces, and nesting too deep to decode.
EnglishRows ==
    {<<<<"1">>, <<"Ana">>, age, position, skills, salary, tsi, form, stamina,
       experience, leadership>> :
        age \in {<<"1", "9">>, <<"9", "9">>, <<"x">>},
        position \in {<<"FW">>, <<"ZZ">>},
        skills \in {SkillsJson15, SkillsJson25, <<"[", "]">>, <<"{", "x">>,
                    SkillsJson15 \o <<Pad>>, <<Pad>>, <<Deep>>},
        salary \in {<<"5", "0", "0">>, <<"7", ".", "5">>, <<"-", "5">>, <<"x">>},
        tsi \in {<<"1", "0", "0", "0">>, <<"x">>},
        form \in {<<"6">>, <<"9">>, <<"x">>},
        stamina \in {<<"5", "0">>, <<"1", "0", "1">>},
        experience \in {<<"3">>, <<"2", "1">>},
        leadership \in {<<"4">>, <<"x">>}}

\* An English file whose skills column comes last, so that a short row can
\* carry every number and no skills cell.
EnglishSkillsLastHeader ==
    <<"id", "name", "age", "position", "salary", "tsi", "form", "stamina",
      "experience", "leadership", "skills">>

EnglishSkillsLastRows ==
    LET full == <<<<"1">>, <<"Ana">>, <<"1", "9">>, <<"FW">>, <<"5", "0", "0">>,
                  <<"1", "0", "0", "0">>, <<"6">>, <<"5", "0">>, <<"3">>, <<"4">>,
                  SkillsJson15>>
    IN  {SubSeq(full, 1, n) : n \in 1..Len(full)}

EnglishDicts ==
    {DictRow(EnglishHeader, cells) : cells \in EnglishRows}
        \cup {DictRow(EnglishSkillsLastHeader, cells) : cells \in EnglishSkillsLastRows}
        \cup {DictRow(EnglishShortHeader, cells) : cells \in EnglishShortFileRows}

PortugueseRows ==
    {<<<<"Rui">>, <<"7">>, age, position, tsi, salary, form, stamina, experience,
       leadership, goleiro, <<"5">>>> :
        age \in {<<"2", "5">>, <<"9", "9">>, <<"x">>},
        position \in {<<"ZC">>, <<"?", "?">>},
        tsi \in {<<"1", "0", "0", "0">>, <<"x">>},
        salary \in {<<"5", "0", "0">>, <<"x">>},
        form \in {<<"6">>, <<"9">>, <<"x">>},
        stamina \in {<<"5", "0">>, <<"1", "0", "1">>},
        experience \in {<<"3">>, <<"2", "1">>},
        leadership \in {<<"4">>, <<"x">>},
        goleiro \in {<<"7">>, <<"2", "5">>, <<"x">>}}

PortugueseDicts ==
    {DictRow(PortugueseHeader, cells) : cells \in PortugueseRows \cup PortugueseFileRows}

PendingRow == [exc |-> "<pending>", player |-> NoPlayer]

InitRowParsers ==
    /\ ParserIdle
    /\ call \in {[fn |-> "_parse_english_format", row |-> d] : d \in EnglishDicts}
                  \cup {[fn |-> "_parse_portuguese_format", row |-> d] : d \in PortugueseDicts}
    /\ result = PendingRow
    /\ frames = <<>>

CallParseEnglishFormat ==
    /\ call.fn = "_parse_english_format"
    /\ result = PendingRow
    /\ result' = _parse_english_format(call.row)
    /\ UNCHANGED <<call, frames, parserVars>>

CallParsePortugueseFormat ==
    /\ call.fn = "_parse_portuguese_format"
    /\ result = PendingRow
    /\ result' = _parse_portuguese_format(call.row)
    /\ UNCHANGED <<call, frames, parserVars>>

NextRowParsers == CallParseEnglishFormat \/ CallParsePortugueseFormat

SpecRowParsers == InitRowParsers /\ [][NextRowParsers]_vars

\* The seven numeric cells of an English row, converted.
EnglishNumbers(row) ==
    [age |-> IntOf(Get(row, "age", <<"0">>)),
     salary |-> FloatOf(Get(row, "salary", <<"0">>)),
     tsi |-> IntOf(Get(row, "tsi", <<"0">>)),
     form |-> IntOf(Get(row, "form", <<"5">>)),
     stamina |-> IntOf(Get(row, "stamina", <<"0">>)),
     experience |-> IntOf(Get(row, "experience", <<"0">>)),
     leadership |-> IntOf(Get(row, "leadership", <<"0">>))]

\* One of the seven fails to convert, or one of the five with a range is
\* outside it.
EnglishNumbersBad(row) ==
    LET n == EnglishNumbers(row)
    IN  \/ \E f \in DOMAIN n : n[f].exc # ""
        \/ n.age.val < 15 \/ n.age.val > 50
        \/ n.form.val < 1 \/ n.form.val > 8
        \/ n.stamina.val < 0 \/ n.stamina.val > 100
        \/ n.experience.val < 0 \/ n.experience.val > 20
        \/ n.leadership.val < 0 \/ n.leadership.val > 20

EnglishReturned == call.fn = "_parse_english_format" /\ result # PendingRow

\* C3 as claimed: an English row gives no Player when a number fails to convert
\* or is out of range, and a row that passes those checks is always accepted.
C3_Claimed ==
    EnglishReturned =>
        (Outcome(result) = "player" <=> ~EnglishNumbersBad(call.row))

\* The skills cell is a str of at most MAX_JSON_SIZE characters that json.loads
\* decodes, or rejects with JSONDecodeError.
SkillsCellReadable(row) ==
    LET skills_str == Get(row, "skills", <<"{", "}">>)
    IN  /\ skills_str # None
        /\ StrLen(skills_str) <= MAX_JSON_SIZE
        /\ JsonLoads(skills_str).exc \in {"", "JSONDecodeError"}

\* C3, amended: an English row gives no Player when a number fails to convert
\* or is out of range; a row that passes those checks and whose skills cell is
\* readable is accepted; its position is the named one, or InnerMidfielder for
\* a code that names none.
C3_EnglishRowAcceptance ==
    EnglishReturned =>
        /\ EnglishNumbersBad(call.row) => Outcome(result) # "player"
        /\ (~EnglishNumbersBad(call.row) /\ SkillsCellReadable(call.row)) =>
              /\ Outcome(result) = "player"
              /\ result.player.position \in Position
              /\ (Get(call.row, "position", <<"IM">>) = <<"ZZ">>) =>
                    result.player.position = "IM"
        /\ ~SkillsCellReadable(call.row) => Outcome(result) = "error"

\* A row with good numbers and an unknown position code has been accepted as an
\* InnerMidfielder.
C3_Witness ==
    /\ EnglishReturned
    /\ ~EnglishNumbersBad(call.row)
    /\ Get(call.row, "position", <<"IM">>) = <<"ZZ">>
    /\ Outcome(result) = "player"
    /\ result.player.position = "IM"

\* One of salary, tsi, form, stamina, experience, leadership of a main-squad
\* row fails to convert.
PortugueseCoercionFails(row) ==
    \/ FloatOf(Get(row, "Salário", <<"0">>)).exc # ""
    \/ IntOf(Get(row, "TSI", <<"0">>)).exc # ""
    \/ IntOf(Get(row, "Forma", <<"5">>)).exc # ""
    \/ IntOf(Get(row, "Resistência", <<"0">>)).exc # ""
    \/ IntOf(Get(row, "Experiência", <<"0">>)).exc # ""
    \/ IntOf(Get(row, "Liderança", <<"0">>)).exc # ""

\* Every skill cell of a main-squad row converts.
PortugueseSkillsConvert(row) ==
    \A col \in {"Goleiro", "Defesa", "Armação", "Ala", "Finalização", "Bola Parada"} :
        IntOf(Get(row, col, <<"0">>)).exc = ""

\* The coerced values of a main-squad row are out of range.
PortugueseOutOfRange(row) ==
    LET age == IntOf(Get(row, "Idade", <<"0">>))
        form == IntOf(Get(row, "Forma", <<"5">>)).val
        stamina == IntOf(Get(row, "Resistência", <<"0">>)).val
        experience == IntOf(Get(row, "Experiência", <<"0">>)).val
        leadership == IntOf(Get(row, "Liderança", <<"0">>)).val
        a == IF age.exc = "" THEN age.val ELSE 0
    IN  \/ a < 15 \/ a > 50
        \/ form < 1 \/ form > 8
        \/ stamina < 0 \/ stamina > 100
        \/ experience < 0 \/ experience > 20
        \/ leadership < 0 \/ leadership > 20

FullDefaults(p) ==
    /\ p.salary = 0 /\ p.tsi = 0 /\ p.form = 5
    /\ p.stamina = 0 /\ p.experience = 0 /\ p.leadership = 0

PortugueseReturned == call.fn = "_parse_portuguese_format" /\ result # PendingRow

\* C4 as claimed: a main-squad row of which one of the six numbers fails to
\* convert is not rejected, and its Player has the full default tuple.
C4_Claimed ==
    (PortugueseReturned /\ PortugueseCoercionFails(call.row)) =>
        (Outcome(result) = "player" /\ FullDefaults(result.player))

\* C4, amended: a main-squad row whose skill cells all convert and of which one
\* of the six numbers fails to convert is not rejected, and its Player has the
\* full default tuple; a skill cell that does not convert rejects the row.
C4_FullDefaultsOnCoercionFailure ==
    (PortugueseReturned /\ PortugueseCoercionFails(call.row)) =>
        IF PortugueseSkillsConvert(call.row)
        THEN Outcome(result) = "player" /\ FullDefaults(result.player)
        ELSE Outcome(result) = "error"

\* The form cell does not convert while salary and tsi do: salary and tsi are
\* back at their defaults.
C4_Witness ==
    /\ PortugueseReturned
    /\ IntOf(Get(call.row, "Forma", <<"5">>)).exc # ""
    /\ FloatOf(Get(call.row, "Salário", <<"0">>)) = [exc |-> "", val |-> 5000]
    /\ IntOf(Get(call.row, "TSI", <<"0">>)) = [exc |-> "", val |-> 1000]
    /\ Outcome(result) = "player"
    /\ FullDefaults(result.player)

\* C5 as claimed: a main-squad row whose coerced values are out of range is not
\* rejected and is returned with the full default tuple.
C5_Claimed ==
    (PortugueseReturned /\ ~PortugueseCoercionFails(call.row)
        /\ PortugueseOutOfRange(call.row)) =>
        (Outcome(result) = "player" /\ FullDefaults(result.player))

\* C5, amended: a main-squad row whose skill cells all convert and whose coerced
\* values are out of range is not rejected; form, stamina, experience and
\* leadership are reset to 5, 0, 0, 0, while salary and tsi keep their coerced
\* values.
C5_RangeFailureResetsFour ==
    (PortugueseReturned /\ ~PortugueseCoercionFails(call.row)
        /\ PortugueseOutOfRange(call.row) /\ PortugueseSkillsConvert(call.row)) =>
        /\ Outcome(result) = "player"
        /\ result.player.form = 5
        /\ result.player.stamina = 0
        /\ result.player.experience = 0
        /\ result.player.leadership = 0
        /\ result.player.salary = FloatOf(Get(call.row, "Salário", <<"0">>)).val
        /\ result.player.tsi = IntOf(Get(call.row, "TSI", <<"0">>)).val

\* A row whose form is 9, with salary 500 and tsi 1000, has been returned with
\* salary and tsi kept and the other four reset.
C5_Witness ==
    /\ PortugueseReturned
    /\ Get(call.row, "Forma", <<"5">>) = <<"9">>
    /\ ~PortugueseCoercionFails(call.row)
    /\ Outcome(result) = "player"
    /\ result.player.salary = 5000
    /\ result.player.tsi = 1000
    /\ result.player.form = 5
    /\ result.player.experience = 0

----------------------------------------------------------------------------
(* player_insights.py: PlayerInsights._recommend_decision                  *)

\* The cost-benefit rule for keeping tried before the training rule.
recommend_decision_keep_first(player, cost_benefit, potential) ==
    IF player.age > 30 /\ cost_benefit < 100 THEN "Sell"
    ELSE IF cost_benefit > 200 THEN "Keep"
    ELSE IF potential = "High" /\ player.age < 22 THEN "Train"
    ELSE IF potential = "Low" /\ cost_benefit < 150 THEN "Sell"
    ELSE "Keep"

\* cost_benefit is a float in the code; only its order against 100, 150 and 200
\* is used, so whole values on both sides of each threshold stand for all.
_recommend_decision(player, cost_benefit, potential) ==
    IF player.age > 30 /\ cost_benefit < 100 THEN "Sell"
    ELSE IF potential = "High" /\ player.age < 22 THEN "Train"
    ELSE IF cost_benefit > 200 THEN "Keep"
    ELSE IF potential = "Low" /\ cost_benefit < 150 THEN "Sell"
    ELSE "Keep"

Ages == MinAge..MaxAge

CostBenefits == {0, 99, 100, 101, 149, 150, 151, 199, 200, 201}

Potentials == {"High", "Medium", "Low"}

InitRecommendDecision ==
    /\ ParserIdle
    /\ call \in {[fn |-> "_recommend_decision", player |-> [age |-> a],
                  cost_benefit |-> cb, potential |-> pt] :
                    a \in Ages, cb \in CostBenefits, pt \in Potentials}
    /\ result = PendingStr
    /\ frames = <<>>

CallRecommendDecision ==
    /\ call.fn = "_recommend_decision"
    /\ result = PendingStr
    /\ result' = _recommend_decision(call.player, call.cost_benefit, call.potential)
    /\ UNCHANGED <<call, frames, parserVars>>

SpecRecommendDecision == InitRecommendDecision /\ [][CallRecommendDecision]_vars

\* The decision table of C10, in its order: <<rule applies, outcome>>.
DecisionTable(age, cb, pt) ==
    << <<age > 30 /\ cb < 100, "Sell">>,
       <<pt = "High" /\ age < 22, "Train">>,
       <<cb > 200, "Keep">>,
       <<pt = "Low" /\ cb < 150, "Sell">>,
       <<TRUE, "Keep">> >>

\* C10: _recommend_decision returns, for every age, cost-benefit and potential,
\* the outcome of the first rule of the decision table that applies, and that is
\* one of Keep, Train, Sell.
C10_FirstMatchingRule ==
    (call.fn = "_recommend_decision" /\ result # PendingStr) =>
        LET t == DecisionTable(call.player.age, call.cost_benefit, call.potential)
            first == CHOOSE i \in 1..Len(t) : t[i][1] /\ \A j \in 1..(i - 1) : ~t[j][1]
        IN  /\ result = t[first][2]
            /\ result \in {"Keep", "Train", "Sell"}

\* A young High-potential player whose cost-benefit is above 200: the training
\* rule comes before the rule for keeping.
C10_Witness ==
    /\ call.fn = "_recommend_decision"
    /\ call.player.age = 19
    /\ call.potential = "High"
    /\ call.cost_benefit = 201
    /\ result = "Train"

----------------------------------------------------------------------------
(* training_projection.py                                                  *)

\* An Optional[int]: None, or an int.
NoInt == [defined |-> FALSE, val |-> 0]

SomeInt(v) == [defined |-> TRUE, val |-> v]

\* `x or 0` of an Optional[int]
OrZero(x) == IF x.defined THEN x.val ELSE 0

\* Line 36, in the order of the list.
training_types == <<"playmaking", "defending", "scoring", "winger", "goalkeeping">>

\* Lines 109-121: player.skills.get(self.current_training) for the five types,
\* None for any other.
_get_current_training_skill(current_training, player) ==
    IF \E i \in 1..Len(training_types) : training_types[i] = current_training
    THEN IF current_training \in DOMAIN player.skills
         THEN SomeInt(player.skills[current_training]) ELSE NoInt
    ELSE NoInt

\* Lines 155-164: tsi * 0.15 * skill_increase * 0.1, in thousandths.
_estimate_value_increase(current_training, player, new_skill) ==
    LET skill_increase ==
            new_skill - OrZero(_get_current_training_skill(current_training, player))
    IN  player.tsi * 15 * skill_increase

\* Lines 92-97: skillup_rate, in halves of a week.
skillup_rate(player) ==
    IF player.age < 20 THEN 1 ELSE IF player.age < 25 THEN 2 ELSE 4

\* int(skillup_rate) of a rate in halves: truncation.
IntOfRate(rate) == rate \div 2

\* Lines 81-107: [exc, val]; weeks // int(skillup_rate) divides by zero when
\* int(skillup_rate) is 0.
_project_player_skill_up(current_training, player, weeks) ==
    LET current_skill == _get_current_training_skill(current_training, player)
    IN  IF ~current_skill.defined
        THEN [exc |-> "",
              val |-> [projected_skill |-> NoInt, weeks_to_improve |-> NoInt,
                       value_increase |-> 0]]
        ELSE LET weeks_to_improve == IntOfRate(skillup_rate(player))
             IN  IF IntOfRate(skillup_rate(player)) = 0
                 THEN [exc |-> "ZeroDivisionError",
                       val |-> [projected_skill |-> NoInt, weeks_to_improve |-> NoInt,
                                value_increase |-> 0]]
                 ELSE LET projected_skill ==
                              current_skill.val + (weeks \div IntOfRate(skillup_rate(player)))
                      IN  [exc |-> "",
                           val |-> [projected_skill |-> SomeInt(projected_skill),
                                    weeks_to_improve |-> SomeInt(weeks_to_improve),
                                    value_increase |->
                                        _estimate_value_increase(current_training, player,
                                                                 projected_skill)]]

\* Lines 17-32: the projections of the players in order; the first exception
\* ends the call.
RECURSIVE project_skill_ups(_, _, _)
project_skill_ups(current_training, squad, weeks) ==
    IF squad = <<>> THEN [exc |-> "", val |-> <<>>]
    ELSE LET player == Head(squad)
             projection == _project_player_skill_up(current_training, player, weeks)
         IN  IF projection.exc # "" THEN [exc |-> projection.exc, val |-> <<>>]
             ELSE LET rest == project_skill_ups(current_training, Tail(squad), weeks)
                  IN  IF rest.exc # "" THEN rest
                      ELSE [exc |-> "",
                            val |-> <<[player_id |-> player.id,
                                       name |-> player.name,
                                       current_skill |->
                                           _get_current_training_skill(current_training, player),
                                       projected_skill |-> projection.val.projected_skill,
                                       weeks_to_improve |-> projection.val.weeks_to_improve,
                                       estimated_value_increase |->
                                           projection.val.value_increase]>>
                                      \o rest.val]

RECURSIVE SumAges(_)
SumAges(squad) == IF squad = <<>> THEN 0 ELSE Head(squad).age + SumAges(Tail(squad))

\* The weeks of the rate table of the projection, rounded up to whole weeks.
weeks_from_rate_table(squad) ==
    IF squad = <<>> THEN 999
    ELSE IF SumAges(squad) < 20 * Len(squad) THEN 1
    ELSE IF SumAges(squad) < 25 * Len(squad) THEN 1
    ELSE 2

\* Lines 141-153: avg_age = sum / len, compared with 20 and 25.
_estimate_weeks_to_skillup(squad) ==
    IF squad = <<>> THEN 999
    ELSE IF SumAges(squad) < 20 * Len(squad) THEN 1
    ELSE IF SumAges(squad) < 25 * Len(squad) THEN 2
    ELSE 4

\* sorted(..., key=weeks_to_skillup): x goes after every entry whose key is not
\* greater, so equal keys keep their order.
RECURSIVE InsertByWeeks(_, _)
InsertByWeeks(x, sorted) ==
    IF sorted = <<>> THEN <<x>>
    ELSE IF Head(sorted).weeks_to_skillup <= x.weeks_to_skillup
         THEN <<Head(sorted)>> \o InsertByWeeks(x, Tail(sorted))
         ELSE <<x>> \o sorted

RECURSIVE SortedByWeeks(_)
SortedByWeeks(s) ==
    IF s = <<>> THEN <<>>
    ELSE InsertByWeeks(s[Len(s)], SortedByWeeks(SubSeq(s, 1, Len(s) - 1)))

\* Lines 60-77: the entries appended by the loop.
RECURSIVE near_skillup(_, _)
near_skillup(current_training, squad) ==
    IF squad = <<>> THEN <<>>
    ELSE LET player == Head(squad)
             skill == _get_current_training_skill(current_training, player)
             weeks_remaining == _estimate_weeks_to_skillup(<<player>>)
         IN  (IF skill.defined /\ weeks_remaining <= 2
              THEN <<[player_id |-> player.id,
                      name |-> player.name,
                      current_skill |-> skill.val,
                      weeks_to_skillup |-> weeks_remaining,
                      estimated_value_increase |->
                          _estimate_value_increase(current_training, player, skill.val)]>>
              ELSE <<>>)
             \o near_skillup(current_training, Tail(squad))

\* Lines 58-79
find_players_near_skillup(current_training, squad) ==
    [exc |-> "", val |-> SortedByWeeks(near_skillup(current_training, squad))]

\* Line 126
_get_players_affected_by_training(squad, training_type) == squad

RECURSIVE SumValueIncrease(_, _)
SumValueIncrease(current_training, squad) ==
    IF squad = <<>> THEN 0
    ELSE _estimate_value_increase(
             current_training, Head(squad),
             OrZero(_get_current_training_skill(current_training, Head(squad))))
         + SumValueIncrease(current_training, Tail(squad))

\* Lines 128-139: total / len as the fraction [num, den]; 0.0 for no players.
\* training_type is not read.
_calculate_training_roi(current_training, squad, training_type) ==
    IF squad = <<>> THEN [num |-> 0, den |-> 1]
    ELSE [num |-> SumValueIncrease(current_training, squad), den |-> Len(squad)]

RoiGreater(a, b) == a.num * b.den > b.num * a.den

\* Lines 39-47: results[training_type]
TrainingResult(current_training, squad, training_type) ==
    LET affected_players == _get_players_affected_by_training(squad, training_type)
    IN  [affected_players |-> Len(affected_players),
         estimated_roi |-> _calculate_training_roi(current_training, affected_players,
                                                   training_type),
         weeks_to_first_skillup |-> _estimate_weeks_to_skillup(affected_players)]

\* Line 50: max() keeps the first of the items with the greatest key.
BestTraining(results) ==
    training_types[CHOOSE i \in 1..Len(training_types) :
        /\ \A j \in 1..Len(training_types) :
               ~RoiGreater(results[training_types[j]].estimated_roi,
                           results[training_types[i]].estimated_roi)
        /\ \A j \in 1..(i - 1) :
               RoiGreater(results[training_types[i]].estimated_roi,
                          results[training_types[j]].estimated_roi)]

\* Lines 34-56
compare_training_types(current_training, squad) ==
    LET results == [t \in {training_types[i] : i \in 1..Len(training_types)} |->
                        TrainingResult(current_training, squad, t)]
    IN  [exc |-> "",
         val |-> [results |-> results,
                  recommendation |-> [best_training |-> BestTraining(results),
                                      reason |-> results[BestTraining(results)].estimated_roi]]]

MaxSquad == 2

MaxWeeks == 52

TrainingPlayer(id, age, skills, tsi) ==
    [id |-> <<id>>, name |-> <<"P", id>>, age |-> age, position |-> "IM",
     skills |-> skills, salary |-> 5000, tsi |-> tsi, form |-> 6, stamina |-> 50,
     experience |-> 3, leadership |-> 4]

\* Players on both sides of the ages 20 and 25, with and without the skill
\* that is trained.
TrainingPlayers ==
    {TrainingPlayer("1", 17, SkillsOf(2, 4, 5, 3, 9), 1000),
     TrainingPlayer("2", 19, SkillsOf(Absent, 6, 7, Absent, Absent), 2000),
     TrainingPlayer("3", 20, SkillsOf(1, 8, 3, 3, 2), 1500),
     TrainingPlayer("4", 24, SkillsOf(0, 2, 6, 7, 4), 800),
     TrainingPlayer("5", 25, SkillsOf(12, 1, 1, 1, 1), 3000),
     TrainingPlayer("6", 30, SkillsOf(Absent, Absent, Absent, Absent, Absent), 500)}

RECURSIVE SquadsUpTo(_, _)
SquadsUpTo(pool, n) ==
    IF n = 0 THEN {<<>>}
    ELSE SquadsUpTo(pool, n - 1)
           \cup {Append(s, p) : s \in {t \in SquadsUpTo(pool, n - 1) : Len(t) = n - 1},
                                p \in pool}

CurrentTrainings == {training_types[i] : i \in 1..Len(training_types)} \cup {"set_pieces"}

PendingList == [exc |-> "<pending>", val |-> <<>>]

InitTraining ==
    /\ ParserIdle
    /\ \E squad \in SquadsUpTo(TrainingPlayers, MaxSquad), ct \in CurrentTrainings :
          \/ \E weeks \in 1..MaxWeeks :
                call = [fn |-> "project_skill_ups", players |-> squad,
                        current_training |-> ct, weeks |-> weeks]
          \/ call = [fn |-> "compare_training_types", players |-> squad,
                     current_training |-> ct]
          \/ call = [fn |-> "find_players_near_skillup", players |-> squad,
                     current_training |-> ct]
    /\ result = PendingList
    /\ frames = <<>>

CallProjectSkillUps ==
    /\ call.fn = "project_skill_ups"
    /\ result.exc = "<pending>"
    /\ result' = project_skill_ups(call.current_training, call.players, call.weeks)
    /\ UNCHANGED <<call, frames, parserVars>>

CallCompareTrainingTypes ==
    /\ call.fn = "compare_training_types"
    /\ result.exc = "<pending>"
    /\ result' = compare_training_types(call.current_training, call.players)
    /\ UNCHANGED <<call, frames, parserVars>>

CallFindPlayersNearSkillup ==
    /\ call.fn = "find_players_near_skillup"
    /\ result.exc = "<pending>"
    /\ result' = find_players_near_skillup(call.current_training, call.players)
    /\ UNCHANGED <<call, frames, parserVars>>

NextTraining ==
    \/ CallProjectSkillUps
    \/ CallCompareTrainingTypes
    \/ CallFindPlayersNearSkillup

SpecTraining == InitTraining /\ [][NextTraining]_vars

\* The projection call has returned or raised.
ProjectionDone == call.fn = "project_skill_ups" /\ result.exc # "<pending>"

EverySkillDefined ==
    \A i \in 1..Len(call.players) :
        _get_current_training_skill(call.current_training, call.players[i]).defined

\* floor(weeks / rate) for the rate 0.5, 1.0 or 2.0 of the player's age.
ClaimedSkillUps(player, weeks) ==
    IF player.age < 20 THEN 2 * weeks
    ELSE IF player.age < 25 THEN weeks
    ELSE weeks \div 2

\* C11: project_skill_ups, for players that all have the trained skill and a
\* week count in 1..MaxWeeks, returns without raising, and each projected_skill
\* is current + floor(weeks / rate), rate 0.5 below 20, 1.0 below 25, else 2.0.
C11_ProjectedSkill ==
    (ProjectionDone /\ EverySkillDefined) =>
        /\ result.exc = ""
        /\ Len(result.val) = Len(call.players)
        /\ \A i \in 1..Len(call.players) :
              result.val[i].projected_skill =
                  SomeInt(_get_current_training_skill(call.current_training,
                                                      call.players[i]).val
                          + ClaimedSkillUps(call.players[i], call.weeks))

ComparisonDone == call.fn = "compare_training_types" /\ result.exc # "<pending>"

\* The value-increase heuristic summed over the squad, on the skill of the
\* training type itself.
RECURSIVE OwnSkillValueIncrease(_, _, _)
OwnSkillValueIncrease(current_training, squad, training_type) ==
    IF squad = <<>> THEN 0
    ELSE _estimate_value_increase(current_training, Head(squad),
                                  Get(Head(squad).skills, training_type, 0))
         + OwnSkillValueIncrease(current_training, Tail(squad), training_type)

\* C12: compare_training_types evaluates the heuristic for each of the five
\* types on that type's own skill, and the type it recommends has the highest
\* mean value increase of the five.
C12_BestTrainingByOwnSkill ==
    ComparisonDone =>
        /\ result.exc = ""
        /\ \A i \in 1..Len(training_types) :
              /\ result.val.results[training_types[i]].estimated_roi.num
                    * Max2(Len(call.players), 1)
                 = OwnSkillValueIncrease(call.current_training, call.players,
                                         training_types[i])
                    * result.val.results[training_types[i]].estimated_roi.den
              /\ OwnSkillValueIncrease(call.current_training, call.players,
                                       training_types[i])
                   <= OwnSkillValueIncrease(call.current_training, call.players,
                                            result.val.recommendation.best_training)

NearSkillupDone == call.fn = "find_players_near_skillup" /\ result.exc # "<pending>"

ResultIds == [i \in 1..Len(result.val) |-> result.val[i].player_id]

HasTrainedSkill(player) ==
    _get_current_training_skill(call.current_training, player).defined

\* Weeks of the rate table of the projection, in halves: 0.5, 1.0, 2.0.
RateTableWithinTwoWeeks(player) == skillup_rate(player) <= 2 * 2

ClaimedNear(player) == HasTrainedSkill(player) /\ RateTableWithinTwoWeeks(player)

\* C13 as claimed: the players returned are exactly those with the trained
\* skill whose weeks to skill-up in the table 0.5, 1.0, 2.0 are at most 2.
C13_Claimed ==
    NearSkillupDone =>
        /\ result.exc = ""
        /\ \A i \in 1..Len(call.players) :
              ClaimedNear(call.players[i]) =>
                  \E j \in 1..Len(result.val) :
                      result.val[j].player_id = call.players[i].id

\* The ids of the players with the trained skill and an age in lo..hi, in
\* squad order.
RECURSIVE IdsOfAges(_, _, _)
IdsOfAges(squad, lo, hi) ==
    IF squad = <<>> THEN <<>>
    ELSE (IF HasTrainedSkill(Head(squad)) /\ Head(squad).age >= lo /\ Head(squad).age <= hi
          THEN <<Head(squad).id>> ELSE <<>>)
            \o IdsOfAges(Tail(squad), lo, hi)

NearUnder20 == IdsOfAges(call.players, 0, 19)

NearUnder25 == IdsOfAges(call.players, 20, 24)

\* C13, amended: the players returned are exactly those with the trained skill
\* and an age below 25; weeks_to_skillup is 1 below 20 and 2 from 20 to 24 (4
\* from 25 on, which is never returned); the list is in ascending weeks, and
\* players with equal weeks keep their squad order.
C13_NearSkillupByAge ==
    NearSkillupDone =>
        /\ result.exc = ""
        /\ ResultIds = NearUnder20
                          \o NearUnder25
        /\ \A j \in 1..Len(result.val) :
              result.val[j].weeks_to_skillup =
                  IF j <= Len(NearUnder20) THEN 1 ELSE 2

\* A player of 24 ahead of a player of 17 in the squad: the younger one is
\* returned first.  Or a player of 25 with the trained skill is left out.
C13_Witness ==
    /\ NearSkillupDone
    /\ Len(call.players) = 2
    /\ HasTrainedSkill(call.players[1]) /\ HasTrainedSkill(call.players[2])
    /\ \/ /\ call.players[1].age = 24 /\ call.players[2].age = 17
          /\ ResultIds = <<call.players[2].id, call.players[1].id>>
       \/ /\ call.players[1].age = 25 /\ call.players[2].age = 19
          /\ ResultIds = <<call.players[2].id>>

----------------------------------------------------------------------------
(* junior_squad.py                                                         *)

\* player.py:12-17: the value of each Position, as its words.
PositionValue ==
    ("GK" :> <<"Goalkeeper">>) @@ ("CD" :> <<"Central", "Defender">>)
        @@ ("WB" :> <<"Wing", "Back">>) @@ ("IM" :> <<"Inner", "Midfielder">>)
        @@ ("WI" :> <<"Winger">>) @@ ("FW" :> <<"Forward">>)

\* `word in value` for a word that is no part of another word of the values.
InValue(word, value) == \E i \in 1..Len(value) : value[i] = word

Min2(a, b) == IF a <= b THEN a ELSE b

\* max(junior.skills.values()) if junior.skills else 0
MaxSkill(skills) ==
    IF DOMAIN skills = {} THEN 0
    ELSE CHOOSE v \in {skills[k] : k \in DOMAIN skills} :
            \A k \in DOMAIN skills : skills[k] <= v

\* Lines 95-120
_calculate_potential_score(junior) ==
    LET age == IF junior.age < 17 THEN 30 ELSE IF junior.age < 18 THEN 20
               ELSE IF junior.age < 19 THEN 10 ELSE 0
        skill == Min2(MaxSkill(junior.skills) * 5, 40)
        tsi == IF junior.tsi > 1000 THEN 20 ELSE IF junior.tsi > 500 THEN 10 ELSE 0
    IN  Min2(age + skill + tsi + junior.form * 2, 100)

\* The bands of the promotion value, which leave 70 and 50 to the band below.
recommend_action_strict(junior, potential_score) ==
    IF potential_score > 70 THEN "Promote and Train"
    ELSE IF potential_score > 50 THEN "Promote"
    ELSE IF potential_score >= 30 THEN "Train"
    ELSE "Release"

\* Lines 122-131
_recommend_action(junior, potential_score) ==
    IF potential_score >= 70 THEN "Promote and Train"
    ELSE IF potential_score >= 50 THEN "Promote"
    ELSE IF potential_score >= 30 THEN "Train"
    ELSE "Release"

\* Lines 133-146: base_value * multiplier, in tenths.
_estimate_promotion_value(junior) ==
    LET potential_score == _calculate_potential_score(junior)
        base_value == junior.tsi * 10
        multiplier == IF potential_score > 70 THEN 20
                      ELSE IF potential_score > 50 THEN 15
                      ELSE 10
    IN  base_value * multiplier

\* Lines 21-33: the entry of one junior.
JuniorAnalysis(junior) ==
    [player_id |-> junior.id,
     name |-> junior.name,
     age |-> junior.age,
     potential_score |-> _calculate_potential_score(junior),
     best_position |-> PositionValue[get_best_position(junior)],
     current_skills |-> junior.skills,
     recommendation |-> _recommend_action(junior, _calculate_potential_score(junior)),
     estimated_promotion_value |-> _estimate_promotion_value(junior)]

\* sorted(..., key=potential_score, reverse=True): x goes after every entry
\* whose score is not smaller, so equal scores keep their order.
RECURSIVE InsertByScore(_, _)
InsertByScore(x, sorted) ==
    IF sorted = <<>> THEN <<x>>
    ELSE IF Head(sorted).potential_score >= x.potential_score
         THEN <<Head(sorted)>> \o InsertByScore(x, Tail(sorted))
         ELSE <<x>> \o sorted

RECURSIVE SortedByScore(_)
SortedByScore(s) ==
    IF s = <<>> THEN <<>>
    ELSE InsertByScore(s[Len(s)], SortedByScore(SubSeq(s, 1, Len(s) - 1)))

\* Lines 16-35
analyze_potential(juniors) ==
    SortedByScore([i \in 1..Len(juniors) |-> JuniorAnalysis(juniors[i])])

\* Lines 73-78, in the order of the dict.
formation_names == <<"4-4-2", "3-5-2", "4-3-3", "5-3-2">>

formations ==
    ("4-4-2" :> [defenders |-> 4, midfielders |-> 4, forwards |-> 2])
        @@ ("3-5-2" :> [defenders |-> 3, midfielders |-> 5, forwards |-> 2])
        @@ ("4-3-3" :> [defenders |-> 4, midfielders |-> 3, forwards |-> 3])
        @@ ("5-3-2" :> [defenders |-> 5, midfielders |-> 3, forwards |-> 2])

\* Lines 160-162, 183-185
Defenders(juniors) ==
    SelectSeq(juniors, LAMBDA j : InValue("Defender", PositionValue[j.position]))

Midfielders(juniors) ==
    SelectSeq(juniors, LAMBDA j : InValue("Midfielder", PositionValue[j.position]))

Forwards(juniors) ==
    SelectSeq(juniors, LAMBDA j : PositionValue[j.position] = <<"Forward">>)

RECURSIVE SumDefending(_)
SumDefending(s) ==
    IF s = <<>> THEN 0
    ELSE Get(Head(s).skills, "defending", 0) + SumDefending(Tail(s))

\* The score without the 30 points per line that has its headcount.
suitability_by_quality_only(juniors, positions) ==
    LET defenders == Defenders(juniors)
        n == Len(defenders)
    IN  IF n = 0 THEN [num |-> 0, den |-> 1]
        ELSE [num |-> Min2(SumDefending(defenders) * 2, 10 * n), den |-> n]

\* Lines 158-179: the score as the fraction [num, den]; den is the number of
\* defenders the average is taken over, 1 when there is none.
_evaluate_formation_suitability(juniors, positions) ==
    LET defenders == Defenders(juniors)
        n == Len(defenders)
        headcount ==
            (IF n >= positions.defenders THEN 30 ELSE 0)
            + (IF Len(Midfielders(juniors)) >= positions.midfielders THEN 30 ELSE 0)
            + (IF Len(Forwards(juniors)) >= positions.forwards THEN 30 ELSE 0)
    IN  IF n = 0 THEN [num |-> headcount, den |-> 1]
        ELSE [num |-> headcount * n + Min2(SumDefending(defenders) * 2, 10 * n),
              den |-> n]

\* Lines 181-191
_can_field_formation(juniors, positions) ==
    /\ Len(Defenders(juniors)) >= positions.defenders
    /\ Len(Midfielders(juniors)) >= positions.midfielders
    /\ Len(Forwards(juniors)) >= positions.forwards

\* The item max() keeps is the last of those with the greatest score.
LastBestFormation(comparison) ==
    formation_names[CHOOSE i \in 1..Len(formation_names) :
        /\ \A j \in 1..Len(formation_names) :
               ~RoiGreater(comparison[formation_names[j]].suitability_score,
                           comparison[formation_names[i]].suitability_score)
        /\ \A j \in (i + 1)..Len(formation_names) :
               RoiGreater(comparison[formation_names[i]].suitability_score,
                          comparison[formation_names[j]].suitability_score)]

\* Line 90: max() keeps the first of the items with the greatest score.
BestFormation(comparison) ==
    formation_names[CHOOSE i \in 1..Len(formation_names) :
        /\ \A j \in 1..Len(formation_names) :
               ~RoiGreater(comparison[formation_names[j]].suitability_score,
                           comparison[formation_names[i]].suitability_score)
        /\ \A j \in 1..(i - 1) :
               RoiGreater(comparison[formation_names[i]].suitability_score,
                          comparison[formation_names[j]].suitability_score)]

\* Lines 71-93
compare_formations(juniors) ==
    LET comparison ==
            [f \in DOMAIN formations |->
                [suitability_score |-> _evaluate_formation_suitability(juniors, formations[f]),
                 can_field |-> _can_field_formation(juniors, formations[f])]]
    IN  [comparison |-> comparison, recommendation |-> BestFormation(comparison)]

MaxLine == 5

JuniorSkillsCells ==
    {<<"{", "}">>,
     <<"{", "\"defending\"", ":", "-", "5", "}">>,
     <<"{", "\"defending\"", ":", "4", "}">>,
     <<"{", "\"defending\"", ":", "6", ",", "\"scoring\"", ":", "2", "}">>,
     SkillsJson15, SkillsJson25}

\* English rows of junior age and above, with tsi on both sides of 500 and
\* 1000, and skills from none to above the documented range and below it.
JuniorEnglishRows ==
    {<<<<"1">>, <<"Ana">>, age, <<"FW">>, skills, <<"0">>, tsi, form, <<"5", "0">>,
       <<"3">>, <<"4">>>> :
        age \in {<<"1", "6">>, <<"1", "7">>, <<"1", "8">>, <<"1", "9">>, <<"2", "5">>},
        skills \in JuniorSkillsCells,
        tsi \in {<<"0">>, <<"4", "0", "0">>, <<"5", "0", "1">>, <<"1", "0", "0", "1">>},
        form \in {<<"1">>, <<"5">>, <<"8">>}}

\* The players of the results that are players.
ParsedPlayers(results) == {r.player : r \in {x \in results : Outcome(x) = "player"}}

\* Players parse_players_csv returns, from rows of each of the three schemas.
JuniorPlayers ==
    ParsedPlayers(
        {_parse_english_format(DictRow(EnglishHeader, cells)) : cells \in JuniorEnglishRows}
        \cup {_parse_portuguese_format(DictRow(PortugueseHeader, cells)) :
                cells \in PortugueseFileRows}
        \cup {_parse_youth_portuguese_format_by_index(cells, ColIndices(YouthHeader)) :
                cells \in YouthFileRows})

\* The juniors analysed together: scores on both sides of 50 and 70 and on them.
JuniorAnalysisPool ==
    {j \in JuniorPlayers : j.tsi = 400 /\ j.form = 5 /\ j.age \in {16, 17, 25}
                           /\ MaxSkill(j.skills) \in {0 - 5, 4, 6, 15}}

Scores == (0 - 25)..100

FormationJunior(position, defending) ==
    [TrainingPlayer("9", 17, SkillsOf(Absent, defending, Absent, Absent, Absent), 0)
        EXCEPT !.position = position]

\* n times the junior
Line(n, junior) == [i \in 1..n |-> junior]

\* A roster by its headcounts: defenders, midfielders, forwards, wing backs.
Roster(nd, nm, nf, nwb, defending) ==
    Line(nd, FormationJunior("CD", defending)) \o Line(nm, FormationJunior("IM", 3))
        \o Line(nf, FormationJunior("FW", 3)) \o Line(nwb, FormationJunior("WB", 9))

Rosters ==
    {Roster(nd, nm, nf, nwb, defending) :
        nd \in 0..MaxLine, nm \in 0..MaxLine, nf \in 0..MaxLine, nwb \in 0..1,
        defending \in {0, 3, 7}}

InitJunior ==
    /\ ParserIdle
    /\ \/ \E j \in JuniorPlayers :
             call = [fn |-> "_calculate_potential_score", junior |-> j]
       \/ \E j \in JuniorAnalysisPool, s \in Scores :
             call = [fn |-> "_recommend_action", junior |-> j, potential_score |-> s]
       \/ \E js \in SquadsUpTo(JuniorAnalysisPool, MaxSquad) :
             call = [fn |-> "analyze_potential", juniors |-> js]
       \/ \E js \in Rosters :
             call = [fn |-> "compare_formations", juniors |-> js]
    /\ result = PendingList
    /\ frames = <<>>

CallCalculatePotentialScore ==
    /\ call.fn = "_calculate_potential_score"
    /\ result.exc = "<pending>"
    /\ result' = [exc |-> "", val |-> _calculate_potential_score(call.junior)]
    /\ UNCHANGED <<call, frames, parserVars>>

CallRecommendAction ==
    /\ call.fn = "_recommend_action"
    /\ result.exc = "<pending>"
    /\ result' = [exc |-> "", val |-> _recommend_action(call.junior, call.potential_score)]
    /\ UNCHANGED <<call, frames, parserVars>>

CallAnalyzePotential ==
    /\ call.fn = "analyze_potential"
    /\ result.exc = "<pending>"
    /\ result' = [exc |-> "", val |-> analyze_potential(call.juniors)]
    /\ UNCHANGED <<call, frames, parserVars>>

CallCompareFormations ==
    /\ call.fn = "compare_formations"
    /\ result.exc = "<pending>"
    /\ result' = [exc |-> "", val |-> compare_formations(call.juniors)]
    /\ UNCHANGED <<call, frames, parserVars>>

NextJunior ==
    \/ CallCalculatePotentialScore
    \/ CallRecommendAction
    \/ CallAnalyzePotential
    \/ CallCompareFormations

SpecJunior == InitJunior /\ [][NextJunior]_vars

ScoreDone == call.fn = "_calculate_potential_score" /\ result.exc # "<pending>"

\* C14: the potential score of a player parse_players_csv returns is in 0..100,
\* and a player that differs only in skills, with a maximum skill that is not
\* smaller, has a score that is not smaller.
C14_ScoreInRangeAndMonotone ==
    ScoreDone =>
        /\ result.val >= 0
        /\ result.val <= 100
        /\ \A j \in JuniorPlayers :
              ([j EXCEPT !.skills = call.junior.skills] = call.junior
                    /\ MaxSkill(j.skills) >= MaxSkill(call.junior.skills))
                  => _calculate_potential_score(j) >= result.val

ActionDone == call.fn = "_recommend_action" /\ result.exc # "<pending>"

Actions == {"Promote and Train", "Promote", "Train", "Release"}

\* C15: _recommend_action returns for every score, and a score in 0..100 gets
\* exactly one action: Promote and Train from 70, Promote from 50 to below 70,
\* Train from 30 to below 50, Release below 30.
C15_ExclusiveBands ==
    ActionDone =>
        /\ result.exc = ""
        /\ result.val \in Actions
        /\ result.val = "Promote and Train" <=> call.potential_score >= 70
        /\ result.val = "Promote" <=>
              (call.potential_score >= 50 /\ call.potential_score < 70)
        /\ result.val = "Train" <=>
              (call.potential_score >= 30 /\ call.potential_score < 50)
        /\ result.val = "Release" <=> call.potential_score < 30

\* The scores on the edge of each band have returned their action.
C15_Witness ==
    /\ ActionDone
    /\ \/ call.potential_score = 70 /\ result.val = "Promote and Train"
       \/ call.potential_score = 69 /\ result.val = "Promote"
       \/ call.potential_score = 50 /\ result.val = "Promote"
       \/ call.potential_score = 30 /\ result.val = "Train"
       \/ call.potential_score = 29 /\ result.val = "Release"

AnalysisDone == call.fn = "analyze_potential" /\ result.exc # "<pending>"

\* The junior of an entry of the analysis.
JuniorOf(entry) ==
    CHOOSE i \in 1..Len(call.juniors) :
        /\ call.juniors[i].id = entry.player_id
        /\ JuniorAnalysis(call.juniors[i]) = entry

\* C16: in analyze_potential the promotion value is tsi * 10 * 2.0 for a junior
\* recommended Promote and Train, tsi * 10 * 1.5 for Promote and tsi * 10 * 1.0
\* for Train or Release, scores of exactly 70 and 50 included.  Values in tenths.
C16_PromotionValueByBand ==
    AnalysisDone =>
        \A e \in 1..Len(result.val) :
            LET entry == result.val[e]
                tsi == call.juniors[JuniorOf(entry)].tsi
            IN  entry.estimated_promotion_value =
                    tsi * 10 * (CASE entry.recommendation = "Promote and Train" -> 20
                                  [] entry.recommendation = "Promote" -> 15
                                  [] OTHER -> 10)

FormationsDone == call.fn = "compare_formations" /\ result.exc # "<pending>"

Headcount(position) ==
    Cardinality({i \in 1..Len(call.juniors) : call.juniors[i].position = position})

FormationIndex(name) == CHOOSE i \in 1..Len(formation_names) : formation_names[i] = name

\* C17: compare_formations recommends a formation whose suitability score no
\* other exceeds and no earlier one of 4-4-2, 3-5-2, 4-3-3, 5-3-2 equals;
\* can_field of a formation is true exactly when the headcounts of defenders,
\* midfielders and forwards each meet its requirement.
C17_BestFormationFirstOnTie ==
    FormationsDone =>
        LET comparison == result.val.comparison
            best == result.val.recommendation
        IN  /\ best \in DOMAIN formations
            /\ \A f \in DOMAIN formations :
                  /\ ~RoiGreater(comparison[f].suitability_score,
                                 comparison[best].suitability_score)
                  /\ FormationIndex(f) < FormationIndex(best) =>
                        RoiGreater(comparison[best].suitability_score,
                                   comparison[f].suitability_score)
                  /\ comparison[f].can_field <=>
                        /\ Headcount("CD") >= formations[f].defenders
                        /\ Headcount("IM") >= formations[f].midfielders
                        /\ Headcount("FW") >= formations[f].forwards

\* The empty roster, or a roster that can field every formation: all four
\* scores are equal and 4-4-2 is recommended.  Or a roster for which a later
\* formation wins.
C17_Witness ==
    /\ FormationsDone
    /\ \/ call.juniors = <<>> /\ result.val.recommendation = "4-4-2"
       \/ /\ \A f \in DOMAIN formations : result.val.comparison[f].can_field
          /\ result.val.recommendation = "4-4-2"
       \/ /\ result.val.recommendation = "5-3-2"
          /\ result.val.comparison["5-3-2"].can_field
          /\ ~result.val.comparison["4-4-2"].can_field

----------------------------------------------------------------------------
(* match_analyzer.py                                                       *)

\* s.split(c)
RECURSIVE Split(_, _)
Split(s, c) ==
    IF ~Contains(s, c) THEN <<s>>
    ELSE <<SplitFirst(s, c)>> \o Split(SubSeq(s, Len(SplitFirst(s, c)) + 2, Len(s)), c)

\* Lines 169-170, 177-178, 185-186: home, away = result.split("-") and the two
\* int() calls.  None has no split; any number of parts but two cannot be
\* unpacked.
ParseResult(res) ==
    IF res = None THEN [exc |-> "AttributeError", home |-> 0, away |-> 0]
    ELSE LET parts == Split(res, "-")
         IN  IF Len(parts) # 2 THEN [exc |-> "ValueError", home |-> 0, away |-> 0]
             ELSE IF IntOf(parts[1]).exc # "" \/ IntOf(parts[2]).exc # ""
             THEN [exc |-> "ValueError", home |-> 0, away |-> 0]
             ELSE [exc |-> "", home |-> IntOf(parts[1]).val, away |-> IntOf(parts[2]).val]

\* Lines 166-172
_is_win(res) ==
    IF ParseResult(res).exc # "" THEN FALSE
    ELSE ParseResult(res).home > ParseResult(res).away

\* Lines 174-180
_is_draw(res) ==
    IF ParseResult(res).exc # "" THEN FALSE
    ELSE ParseResult(res).home = ParseResult(res).away

\* Lines 182-188
_is_loss(res) ==
    IF ParseResult(res).exc # "" THEN FALSE
    ELSE ParseResult(res).home < ParseResult(res).away

\* Lines 233-240
_get_match_points(res) ==
    IF _is_win(res) THEN 3 ELSE IF _is_draw(res) THEN 1 ELSE 0

\* m[lo:hi] of a list, indices from 0
Slice(m, lo, hi) == SubSeq(m, lo + 1, Min2(hi, Len(m)))

RECURSIVE SumPoints(_)
SumPoints(ms) ==
    IF ms = <<>> THEN 0
    ELSE _get_match_points(Get(Head(ms), "result", <<>>)) + SumPoints(Tail(ms))

\* The trend with no band around the older mean.
form_trend_without_band(ms) ==
    IF Len(ms) < 2 THEN "insufficient_data"
    ELSE LET recent_results == Slice(ms, 0, 3)
             older_results == IF Len(ms) > 3 THEN Slice(ms, 3, 6) ELSE <<>>
         IN  IF older_results = <<>> THEN "stable"
             ELSE IF SumPoints(recent_results) * Len(older_results)
                        > SumPoints(older_results) * Len(recent_results)
                  THEN "improving"
             ELSE IF SumPoints(recent_results) * Len(older_results)
                        < SumPoints(older_results) * Len(recent_results)
                  THEN "declining"
             ELSE "stable"

\* Lines 212-231.  recent_avg > older_avg + 0.5, with recent_avg = r / n and
\* older_avg = o / k, is 2 * r * k > 2 * o * n + n * k.
_calculate_form_trend(ms) ==
    IF Len(ms) < 2 THEN "insufficient_data"
    ELSE LET recent_results == Slice(ms, 0, 3)
             older_results == IF Len(ms) > 3 THEN Slice(ms, 3, 6) ELSE <<>>
             r == SumPoints(recent_results)
             n == Len(recent_results)
             o == SumPoints(older_results)
             k == Len(older_results)
         IN  IF older_results = <<>> THEN "stable"
             ELSE IF 2 * r * k > 2 * o * n + n * k THEN "improving"
             ELSE IF 2 * r * k < 2 * o * n - n * k THEN "declining"
             ELSE "stable"

\* round(num / den, 1) in tenths, for num >= 0: to the nearest tenth, a tie to
\* the even one.
RoundTenths(num, den) ==
    LET q == (10 * num) \div den
        r == (10 * num) % den
    IN  IF 2 * r < den THEN q
        ELSE IF 2 * r > den THEN q + 1
        ELSE IF q % 2 = 0 THEN q ELSE q + 1

RECURSIVE CountWhere(_, _)
CountWhere(ms, outcome) ==
    IF ms = <<>> THEN 0
    ELSE (IF CASE outcome = "win" -> _is_win(Get(Head(ms), "result", <<>>))
               [] outcome = "draw" -> _is_draw(Get(Head(ms), "result", <<>>))
               [] outcome = "loss" -> _is_loss(Get(Head(ms), "result", <<>>))
          THEN 1 ELSE 0)
         + CountWhere(Tail(ms), outcome)

RECURSIVE SumOf(_, _, _)
SumOf(ms, key, default) ==
    IF ms = <<>> THEN 0 ELSE Get(Head(ms), key, default) + SumOf(Tail(ms), key, default)

\* Lines 40-60; win_rate as the fraction [num, den], the averages in tenths.
analyze_recent_form(ms, last_n) ==
    LET recent_matches == IF Len(ms) >= last_n THEN Slice(ms, 0, last_n) ELSE ms
        n == Len(recent_matches)
    IN  [matches_analyzed |-> n,
         wins |-> CountWhere(recent_matches, "win"),
         draws |-> CountWhere(recent_matches, "draw"),
         losses |-> CountWhere(recent_matches, "loss"),
         win_rate |-> IF n > 0
                      THEN [num |-> CountWhere(recent_matches, "win") * 100, den |-> n]
                      ELSE [num |-> 0, den |-> 1],
         average_possession |-> IF n > 0
                                THEN RoundTenths(SumOf(recent_matches, "possession", 50), n)
                                ELSE 500,
         average_chances |-> IF n > 0
                             THEN RoundTenths(SumOf(recent_matches, "chances", 0), n)
                             ELSE 0,
         form_trend |-> _calculate_form_trend(recent_matches)]

MaxResultLen == 3

MaxMatches == 6

\* The depth at which the interpreter refuses another call.
MaxFrames == 6

ResultChars == {"0", "1", "2", "-", "x", " "}

ResultValues == StringsUpTo(ResultChars, MaxResultLen) \cup {None}

Match(res, possession, chances) ==
    [k \in {"result", "possession", "chances"} |->
        CASE k = "result" -> res [] k = "possession" -> possession
          [] k = "chances" -> chances]

\* A win, a draw, a loss, a result that is no score, and a match without one.
MatchPool ==
    {Match(<<"2", "-", "1">>, 60, 5),
     Match(<<"1", "-", "1">>, 50, 3),
     Match(<<"0", "-", "2">>, 40, 2),
     Match(<<"x">>, 45, 4),
     [k \in {"possession"} |-> 55]}

TrendPool == {m \in MatchPool : "result" \in DOMAIN m}

InitMatch ==
    /\ ParserIdle
    /\ \/ \E r \in ResultValues : call = [fn |-> "_is_win/_is_draw/_is_loss", result |-> r]
       \/ \E ms \in SquadsUpTo(TrendPool, MaxMatches) :
             \/ call = [fn |-> "_calculate_form_trend", matches |-> ms]
             \/ \E last_n \in {3, 5} :
                   call = [fn |-> "analyze_recent_form", matches |-> ms, last_n |-> last_n]
       \/ \E ms \in SquadsUpTo(MatchPool, MaxSquad) :
             \/ call = [fn |-> "extract_patterns", matches |-> ms]
             \/ call = [fn |-> "suggest_tactical_changes", matches |-> ms]
    /\ result = PendingList
    /\ frames = <<>>

CallOutcomePredicates ==
    /\ call.fn = "_is_win/_is_draw/_is_loss"
    /\ result.exc = "<pending>"
    /\ result' = [exc |-> "",
                  val |-> [win |-> _is_win(call.result), draw |-> _is_draw(call.result),
                           loss |-> _is_loss(call.result)]]
    /\ UNCHANGED <<call, frames, parserVars>>

CallCalculateFormTrend ==
    /\ call.fn = "_calculate_form_trend"
    /\ result.exc = "<pending>"
    /\ result' = [exc |-> "", val |-> _calculate_form_trend(call.matches)]
    /\ UNCHANGED <<call, frames, parserVars>>

CallAnalyzeRecentForm ==
    /\ call.fn = "analyze_recent_form"
    /\ result.exc = "<pending>"
    /\ result' = [exc |-> "", val |-> analyze_recent_form(call.matches, call.last_n)]
    /\ UNCHANGED <<call, frames, parserVars>>

\* A call of `callee` from the innermost frame: a new frame, or RecursionError
\* at the depth limit, which no frame catches.
CallFrom(callee) ==
    IF Len(frames) >= MaxFrames
    THEN /\ result' = [exc |-> "RecursionError", val |-> <<>>]
         /\ frames' = <<>>
    ELSE /\ frames' = Append(frames, callee)
         /\ UNCHANGED result

InnermostFrame == IF frames = <<>> THEN "" ELSE frames[Len(frames)]

\* extract_patterns is called.
CallExtractPatterns ==
    /\ call.fn = "extract_patterns"
    /\ result.exc = "<pending>"
    /\ frames = <<>>
    /\ frames' = <<"extract_patterns">>
    /\ UNCHANGED <<call, result, parserVars>>

\* Lines 62-64: suggest_tactical_changes is called and calls extract_patterns.
CallSuggestTacticalChanges ==
    /\ call.fn = "suggest_tactical_changes"
    /\ result.exc = "<pending>"
    /\ frames = <<>>
    /\ frames' = <<"suggest_tactical_changes", "extract_patterns">>
    /\ UNCHANGED <<call, result, parserVars>>

\* Lines 29-36: without matches the error dict is returned to the caller; with
\* matches the three analyses are computed and
\* _generate_tactical_recommendations is called.
ExtractPatterns ==
    /\ InnermostFrame = "extract_patterns"
    /\ IF call.matches = <<>>
       THEN /\ frames' = SubSeq(frames, 1, Len(frames) - 1)
            /\ result' = IF Len(frames) = 1
                         THEN [exc |-> "", val |-> <<"error">>]
                         ELSE result
       ELSE CallFrom("_generate_tactical_recommendations")
    /\ UNCHANGED <<call, parserVars>>

\* Lines 133-134: _generate_tactical_recommendations calls extract_patterns on
\* the same matches.
GenerateTacticalRecommendations ==
    /\ InnermostFrame = "_generate_tactical_recommendations"
    /\ CallFrom("extract_patterns")
    /\ UNCHANGED <<call, parserVars>>

\* Lines 67-68, once extract_patterns has returned, which it does only for no
\* matches: the error dict has no possession_analysis, and None < 45 raises.
SuggestTacticalChanges ==
    /\ InnermostFrame = "suggest_tactical_changes"
    /\ result.exc = "<pending>"
    /\ result' = [exc |-> "TypeError", val |-> <<>>]
    /\ frames' = <<>>
    /\ UNCHANGED <<call, parserVars>>

NextMatch ==
    \/ CallOutcomePredicates
    \/ CallCalculateFormTrend
    \/ CallAnalyzeRecentForm
    \/ CallExtractPatterns
    \/ CallSuggestTacticalChanges
    \/ ExtractPatterns
    \/ GenerateTacticalRecommendations
    \/ SuggestTacticalChanges

SpecMatch == InitMatch /\ [][NextMatch]_vars

OutcomesDone == call.fn = "_is_win/_is_draw/_is_loss" /\ result.exc # "<pending>"

RecentFormDone == call.fn = "analyze_recent_form" /\ result.exc # "<pending>"

\* C18: for every result value exactly one of _is_win, _is_draw, _is_loss is
\* true, a value that is no "H-A" score counting as a loss; and in
\* analyze_recent_form wins + draws + losses = matches_analyzed.
C18_ExactlyOneOutcome ==
    /\ OutcomesDone =>
          /\ Cardinality({o \in {"win", "draw", "loss"} : result.val[o]}) = 1
          /\ ParseResult(call.result).exc # "" => result.val.loss
    /\ RecentFormDone =>
          result.val.wins + result.val.draws + result.val.losses
              = result.val.matches_analyzed

PatternsDone ==
    /\ call.fn \in {"extract_patterns", "suggest_tactical_changes"}
    /\ result.exc # "<pending>"

\* C19: for a non-empty match list extract_patterns and suggest_tactical_changes
\* return a result, the advisory strings of the rules that trigger or the one
\* fallback message: they do not raise, and what they return is not empty.
C19_PatternsReturn ==
    (PatternsDone /\ call.matches # <<>>) =>
        /\ result.exc = ""
        /\ result.val # <<>>

TrendDone == call.fn = "_calculate_form_trend" /\ result.exc # "<pending>"

\* Points of the records lo..hi of the call: 3 for a win, 1 for a draw, 0 for
\* a loss or a result that is no score.
RECURSIVE ClaimedPoints(_, _)
ClaimedPoints(lo, hi) ==
    IF lo > hi THEN 0
    ELSE LET score == ParseResult(Get(call.matches[lo], "result", <<>>))
         IN  (IF score.exc # "" THEN 0
              ELSE IF score.home > score.away THEN 3
              ELSE IF score.home = score.away THEN 1 ELSE 0)
             + ClaimedPoints(lo + 1, hi)

\* C20: fewer than 2 records give insufficient_data, 2 or 3 give stable; from 4
\* on, with recent the mean points of the first 3 and older the mean of the next
\* up to 3, improving if recent > older + 0.5, declining if recent < older - 0.5,
\* otherwise stable.  The means are compared as sixths of their sums.
C20_FormTrend ==
    TrendDone =>
        LET n == Len(call.matches)
            k == Min2(n, 6) - 3
            recent == ClaimedPoints(1, 3)
            older == ClaimedPoints(4, Min2(n, 6))
        IN  result.val =
                IF n < 2 THEN "insufficient_data"
                ELSE IF n < 4 THEN "stable"
                ELSE IF recent * 2 * k > older * 6 + 3 * k THEN "improving"
                ELSE IF recent * 2 * k < older * 6 - 3 * k THEN "declining"
                ELSE "stable"

\* Six records, three wins then a win, a draw and a loss: the recent mean 3 is
\* above the older mean 4/3 by more than the band.  Or four records whose means
\* differ by less than the band.
C20_Witness ==
    /\ TrendDone
    /\ \/ /\ Len(call.matches) = 6
          /\ ClaimedPoints(1, 3) = 9 /\ ClaimedPoints(4, 6) = 4
          /\ result.val = "improving"
       \/ /\ Len(call.matches) = 4
          /\ ClaimedPoints(1, 3) = 3 /\ ClaimedPoints(4, 4) = 1
          /\ result.val = "stable"

----------------------------------------------------------------------------
(* match_analyzer.py: the averages of extract_patterns                     *)

RECURSIVE Sum(_)
Sum(s) == IF s = <<>> THEN 0 ELSE Head(s) + Sum(Tail(s))

\* Lines 86 and 112: [m.get(key, default) for m in self.matches if m.get(key)].
\* m.get(key) is None for a record without the key and is falsy for 0 as well.
RECURSIVE FieldsWhereTruthy(_, _)
FieldsWhereTruthy(ms, key) ==
    IF ms = <<>> THEN <<>>
    ELSE (IF key \in DOMAIN Head(ms) /\ Head(ms)[key] # 0
          THEN <<Head(ms)[key]>> ELSE <<>>)
         \o FieldsWhereTruthy(Tail(ms), key)

\* [m.get(key, default) for m in matches]
RECURSIVE FieldsWithDefault(_, _, _)
FieldsWithDefault(ms, key, default) ==
    IF ms = <<>> THEN <<>>
    ELSE <<Get(Head(ms), key, default)>> \o FieldsWithDefault(Tail(ms), key, default)

\* Lines 94-102 for a non-empty list `possessions`.  recent_avg = r / n and
\* older_avg = o / k; recent_avg > older_avg + 5 is r * k > o * n + 5 * n * k.
possession_trend(possessions) ==
    LET len == Len(possessions)
        r == Sum(Slice(possessions, 0, 5))
        n == Min2(5, len)
        o == IF len > 5 THEN Sum(Slice(possessions, 5, len)) ELSE Sum(possessions)
        k == IF len > 5 THEN Max2(1, len - 5) ELSE len
    IN  IF r * k > o * n + 5 * n * k THEN "improving"
        ELSE IF r * k < o * n - 5 * n * k THEN "declining"
        ELSE "stable"

\* Lines 84-108; the average in tenths.  The dict returned for no possessions
\* has no "recommendation" key.
_analyze_possession(ms) ==
    LET possessions == FieldsWhereTruthy(ms, "possession")
    IN  IF possessions = <<>>
        THEN [average |-> 500, trend |-> "stable", recommendation |-> "<absent>"]
        ELSE [average |-> RoundTenths(Sum(possessions), Len(possessions)),
              trend |-> possession_trend(possessions),
              recommendation |-> IF Sum(possessions) < 45 * Len(possessions)
                                 THEN "Train playmaking" ELSE "Maintain"]

\* Lines 190-196: only the part before the "-" is converted.
_get_goals_scored(res) ==
    IF res = None THEN 0
    ELSE LET parts == Split(res, "-")
         IN  IF Len(parts) # 2 THEN 0
             ELSE IF IntOf(parts[1]).exc # "" THEN 0
             ELSE IntOf(parts[1]).val

RECURSIVE GoalsScored(_)
GoalsScored(ms) ==
    IF ms = <<>> THEN <<>>
    ELSE <<_get_goals_scored(Get(Head(ms), "result", <<>>))>> \o GoalsScored(Tail(ms))

\* Lines 206-210, in tenths
_calculate_conversion_rate(chances, goals) ==
    IF chances = <<>> \/ Sum(chances) = 0 THEN 0
    ELSE RoundTenths(100 * Sum(goals), Sum(chances))

\* Lines 110-119, the averages in tenths
_analyze_attack(ms) ==
    LET chances == FieldsWhereTruthy(ms, "chances")
        goals_scored == GoalsScored(ms)
    IN  [average_chances |-> IF chances # <<>>
                             THEN RoundTenths(Sum(chances), Len(chances)) ELSE 0,
         average_goals |-> IF goals_scored # <<>>
                           THEN RoundTenths(Sum(goals_scored), Len(goals_scored)) ELSE 0,
         conversion_rate |-> _calculate_conversion_rate(chances, goals_scored)]

\* Records with both fields, without chances, without possession, with neither.
AveragePool ==
    {Match(<<"2", "-", "1">>, 60, 5),
     [k \in {"result", "possession"} |->
         IF k = "result" THEN <<"0", "-", "2">> ELSE 30],
     [k \in {"result", "chances"} |-> IF k = "result" THEN <<"1", "-", "1">> ELSE 4],
     [k \in {"result"} |-> <<"1", "-", "0">>]}

InitAverages ==
    /\ ParserIdle
    /\ \E ms \in SquadsUpTo(AveragePool, MaxMatches) :
          \/ call = [fn |-> "_analyze_possession", matches |-> ms]
          \/ call = [fn |-> "_analyze_attack", matches |-> ms]
          \/ \E last_n \in {3, 5} :
                call = [fn |-> "analyze_recent_form", matches |-> ms, last_n |-> last_n]
    /\ result = PendingList
    /\ frames = <<>>

CallAnalyzePossession ==
    /\ call.fn = "_analyze_possession"
    /\ result.exc = "<pending>"
    /\ result' = [exc |-> "", val |-> _analyze_possession(call.matches)]
    /\ UNCHANGED <<call, frames, parserVars>>

CallAnalyzeAttack ==
    /\ call.fn = "_analyze_attack"
    /\ result.exc = "<pending>"
    /\ result' = [exc |-> "", val |-> _analyze_attack(call.matches)]
    /\ UNCHANGED <<call, frames, parserVars>>

NextAverages ==
    \/ CallAnalyzePossession
    \/ CallAnalyzeAttack
    \/ CallAnalyzeRecentForm

SpecAverages == InitAverages /\ [][NextAverages]_vars

AverageDone ==
    /\ call.fn \in {"_analyze_possession", "_analyze_attack", "analyze_recent_form"}
    /\ result.exc # "<pending>"
    /\ call.matches # <<>>

\* The records the call averages: all of them, or the first last_n.
Averaged ==
    IF call.fn = "analyze_recent_form" /\ Len(call.matches) >= call.last_n
    THEN Slice(call.matches, 0, call.last_n)
    ELSE call.matches

\* C21: in every average of the match analyzer (recent form, possession
\* analysis and its trend, attack analysis) a record without possession counts
\* as possession 50 and a record without chances as 0 chances, and stays among
\* the records averaged.
C21_MissingFieldsDefaulted ==
    AverageDone =>
        LET possessions == FieldsWithDefault(Averaged, "possession", 50)
            chances == FieldsWithDefault(Averaged, "chances", 0)
            n == Len(Averaged)
        IN  /\ call.fn = "_analyze_possession" =>
                  /\ result.val.average = RoundTenths(Sum(possessions), n)
                  /\ result.val.trend = possession_trend(possessions)
            /\ call.fn = "_analyze_attack" =>
                  result.val.average_chances = RoundTenths(Sum(chances), n)
            /\ call.fn = "analyze_recent_form" =>
                  /\ result.val.average_possession = RoundTenths(Sum(possessions), n)
                  /\ result.val.average_chances = RoundTenths(Sum(chances), n)

----------------------------------------------------------------------------
(* match_analyzer.py: the public operations on no matches                  *)

EmptyListDone ==
    /\ call.fn \in {"extract_patterns", "analyze_recent_form", "suggest_tactical_changes"}
    /\ result.exc # "<pending>"
    /\ call.matches = <<>>

\* C29: for an empty match list each of extract_patterns, analyze_recent_form
\* and suggest_tactical_changes returns a value and does not raise.
C29_EmptyListReturns == EmptyListDone => result.exc = ""

----------------------------------------------------------------------------
(* junior_squad.py: the recommended formation can be fielded               *)

Fieldable == {f \in DOMAIN formations : result.val.comparison[f].can_field}

\* C26: in compare_formations, whenever at least one of the four formations has
\* can_field = true, the recommended formation has can_field = true as well.
C26_RecommendationFieldable ==
    (FormationsDone /\ Fieldable # {}) => result.val.recommendation \in Fieldable

\* Three defenders, five midfielders and two forwards: 4-4-2, first in the
\* dict, cannot be fielded, and 3-5-2 can and is recommended.
C26_Witness ==
    /\ FormationsDone
    /\ Headcount("CD") = 3 /\ Headcount("IM") = 5 /\ Headcount("FW") = 2
    /\ Fieldable = {"3-5-2"}
    /\ result.val.recommendation = "3-5-2"

----------------------------------------------------------------------------
(* junior_squad.py: recommend_promotions                                   *)

\* The candidates in the order of the squad, not of the analysis.
promotions_in_squad_order(juniors, max_promotions) ==
    LET analysis == [i \in 1..Len(juniors) |-> JuniorAnalysis(juniors[i])]
        promotion_candidates ==
            SelectSeq(analysis,
                      LAMBDA a : a.recommendation \in {"Promote", "Promote and Train"})
    IN  Slice(promotion_candidates, 0, max_promotions)

\* Lines 37-47, for max_promotions >= 0
recommend_promotions(juniors, max_promotions) ==
    LET analysis == analyze_potential(juniors)
        promotion_candidates ==
            SelectSeq(analysis,
                      LAMBDA a : a.recommendation \in {"Promote", "Promote and Train"})
    IN  Slice(promotion_candidates, 0, max_promotions)

\* The greatest max_promotions of the calls; main.py:126 admits 1 to 20.
MaxPromotions == 2

InitPromotions ==
    /\ ParserIdle
    /\ \E js \in SquadsUpTo(JuniorAnalysisPool, MaxSquad), n \in 1..MaxPromotions :
          call = [fn |-> "recommend_promotions", juniors |-> js, max_promotions |-> n]
    /\ result = PendingList
    /\ frames = <<>>

CallRecommendPromotions ==
    /\ call.fn = "recommend_promotions"
    /\ result.exc = "<pending>"
    /\ result' = [exc |-> "",
                  val |-> recommend_promotions(call.juniors, call.max_promotions)]
    /\ UNCHANGED <<call, frames, parserVars>>

NextPromotions == CallRecommendPromotions

SpecPromotions == InitPromotions /\ [][NextPromotions]_vars

PromotionsDone == call.fn = "recommend_promotions" /\ result.exc # "<pending>"

\* How many of the entries s have a potential score above v
RECURSIVE ScoresAbove(_, _)
ScoresAbove(s, v) ==
    IF s = <<>> THEN 0
    ELSE (IF Head(s).potential_score > v THEN 1 ELSE 0) + ScoresAbove(Tail(s), v)

SquadEntries == [i \in 1..Len(call.juniors) |-> JuniorAnalysis(call.juniors[i])]

\* C27: recommend_promotions(n), n from 1 to 20, returns at most n juniors of
\* the squad, each with potential score >= 50 and recommendation Promote or
\* Promote and Train, in non-increasing score order; no junior left out has a
\* score above that of a junior returned (the squad has as many scores above
\* any returned score as the result has).
C27_TopPromotions ==
    PromotionsDone =>
        /\ result.exc = ""
        /\ Len(result.val) <= call.max_promotions
        /\ \A i \in 1..Len(result.val) :
              /\ \E j \in 1..Len(SquadEntries) : SquadEntries[j] = result.val[i]
              /\ result.val[i].potential_score >= 50
              /\ result.val[i].recommendation \in {"Promote", "Promote and Train"}
              /\ i > 1 => result.val[i - 1].potential_score >= result.val[i].potential_score
              /\ ScoresAbove(SquadEntries, result.val[i].potential_score)
                    = ScoresAbove(result.val, result.val[i].potential_score)

\* Two candidates, the one with the lower score first in the squad, and room
\* for one: the second is returned and the first is left out.
C27_Witness ==
    /\ PromotionsDone
    /\ call.max_promotions = 1
    /\ Len(call.juniors) = 2
    /\ SquadEntries[1].potential_score = 50
    /\ SquadEntries[2].potential_score = 80
    /\ result.val = <<SquadEntries[2]>>

----------------------------------------------------------------------------
(* player.py: calculate_cost_benefit, estimate_potential;                  *)
(* player_insights.py: analyze_player                                      *)

\* self.tsi / self.salary with no test of the salary.
cost_benefit_unguarded(self) ==
    IF self.salary = 0 THEN [exc |-> "ZeroDivisionError", num |-> 0, den |-> 1]
    ELSE IF self.salary < 0
    THEN [exc |-> "", num |-> 0 - 10 * self.tsi, den |-> 0 - self.salary]
    ELSE [exc |-> "", num |-> 10 * self.tsi, den |-> self.salary]

\* player.py:55-59.  The salary is kept in tenths, so tsi / salary is the
\* fraction 10 * tsi / salary, returned as num / den with den > 0.
calculate_cost_benefit(self) ==
    IF self.salary = 0 THEN [exc |-> "", num |-> 0, den |-> 1]
    ELSE IF self.salary < 0
    THEN [exc |-> "", num |-> 0 - 10 * self.tsi, den |-> 0 - self.salary]
    ELSE [exc |-> "", num |-> 10 * self.tsi, den |-> self.salary]

\* High up to the age the training rule is written with.
potential_high_under_22(self) ==
    IF self.age < 22 THEN "High" ELSE IF self.age < 25 THEN "Medium" ELSE "Low"

\* player.py:61-68
estimate_potential(self) ==
    IF self.age < 20 THEN "High" ELSE IF self.age < 25 THEN "Medium" ELSE "Low"

\* player_insights.py:46-61
_estimate_training_impact(player) ==
    IF player.age < 20 THEN [time_to_improve |-> "1-2 weeks", impact |-> "High"]
    ELSE IF player.age < 25 THEN [time_to_improve |-> "2-4 weeks", impact |-> "Medium"]
    ELSE [time_to_improve |-> "4+ weeks", impact |-> "Low"]

\* A whole number in the same order as num / den against 100, 150 and 200, the
\* numbers _recommend_decision compares the cost-benefit with: the floor, or
\* the next whole number when the floor is one of the three and is not reached.
WholeCostBenefit(num, den) ==
    IF num % den # 0 /\ (num \div den) \in {100, 150, 200}
    THEN (num \div den) + 1
    ELSE num \div den

\* player_insights.py:16-40; cost_benefit, rounded to 2 places, in hundredths.
analyze_player(player) ==
    LET best_position == get_best_position(player)
        cost_benefit == calculate_cost_benefit(player)
        potential == estimate_potential(player)
        training_impact == _estimate_training_impact(player)
        decision == _recommend_decision(
                        player, WholeCostBenefit(cost_benefit.num, cost_benefit.den),
                        potential)
    IN  IF cost_benefit.exc # "" THEN [exc |-> cost_benefit.exc, val |-> <<>>]
        ELSE [exc |-> "",
              val |-> [player_id |-> player.id,
                       name |-> player.name,
                       age |-> player.age,
                       best_position |-> PositionValue[best_position],
                       current_position |-> PositionValue[player.position],
                       cost_benefit |-> RoundTenths(10 * cost_benefit.num, cost_benefit.den),
                       potential |-> potential,
                       training_impact |-> training_impact,
                       recommendation |-> decision,
                       tsi |-> player.tsi,
                       salary |-> player.salary]]

\* Players on both sides of the ages 20, 22, 25 and 30; salaries 0, 5.0, 7.0,
\* 10.0, 500.0 and -5.0 in tenths; cost-benefits on both sides of 100, 150
\* and 200, whole and not.
InsightPlayers ==
    {[TrainingPlayer("7", age, skills, tsi) EXCEPT !.salary = salary] :
        age \in {17, 19, 20, 21, 22, 24, 25, 30, 31, 35},
        skills \in {SkillsOf(Absent, Absent, Absent, Absent, Absent), SkillsOf(0, 2, 6, 7, 4)},
        tsi \in {0, 500, 1000, 1003, 3000},
        salary \in {0, 50, 70, 100, 5000, 0 - 50}}

InitInsights ==
    /\ ParserIdle
    /\ \E p \in InsightPlayers :
          \/ call = [fn |-> "calculate_cost_benefit", player |-> p]
          \/ call = [fn |-> "analyze_player", player |-> p]
    /\ result = PendingList
    /\ frames = <<>>

CallCalculateCostBenefit ==
    /\ call.fn = "calculate_cost_benefit"
    /\ result.exc = "<pending>"
    /\ result' = [exc |-> calculate_cost_benefit(call.player).exc,
                  val |-> [num |-> calculate_cost_benefit(call.player).num,
                           den |-> calculate_cost_benefit(call.player).den]]
    /\ UNCHANGED <<call, frames, parserVars>>

CallAnalyzePlayer ==
    /\ call.fn = "analyze_player"
    /\ result.exc = "<pending>"
    /\ result' = analyze_player(call.player)
    /\ UNCHANGED <<call, frames, parserVars>>

NextInsights ==
    \/ CallCalculateCostBenefit
    \/ CallAnalyzePlayer

SpecInsights == InitInsights /\ [][NextInsights]_vars

CostBenefitDone == call.fn = "calculate_cost_benefit" /\ result.exc # "<pending>"

\* C25: calculate_cost_benefit returns 0.0 for every tsi when the salary is 0,
\* with no division fault, and tsi / salary otherwise (num / den = tsi over the
\* salary, which the player holds in tenths).
C25_CostBenefit ==
    CostBenefitDone =>
        /\ result.exc = ""
        /\ call.player.salary = 0 => result.val.num = 0
        /\ call.player.salary # 0 =>
              result.val.num * call.player.salary = 10 * call.player.tsi * result.val.den

\* A player with tsi and no salary.
C25_Witness ==
    /\ CostBenefitDone
    /\ call.player.salary = 0
    /\ call.player.tsi = 3000
    /\ result = [exc |-> "", val |-> [num |-> 0, den |-> 1]]

AnalysisOfPlayerDone == call.fn = "analyze_player" /\ result.exc # "<pending>"

\* C28: analyze_player recommends Train exactly for the players under 20,
\* whatever their salary, tsi and skills; a player of 20 or 21 never gets Train.
C28_TrainExactlyUnder20 ==
    AnalysisOfPlayerDone =>
        /\ result.exc = ""
        /\ result.val.recommendation = "Train" <=> call.player.age < 20

\* The player of 19 without salary gets Train; its cost-benefit is 0.
C28_Witness ==
    /\ AnalysisOfPlayerDone
    /\ call.player.age = 19
    /\ call.player.salary = 0
    /\ result.val.cost_benefit = 0
    /\ result.val.potential = "High"
    /\ result.val.recommendation = "Train"

----------------------------------------------------------------------------
(* team_snapshot.py: _suggest_best_lineup                                  *)

\* .sort(key=tsi, reverse=True): x goes after every player whose tsi is not
\* smaller, so equal tsi keep their order.
RECURSIVE InsertByTsi(_, _)
InsertByTsi(x, sorted) ==
    IF sorted = <<>> THEN <<x>>
    ELSE IF Head(sorted).tsi >= x.tsi
         THEN <<Head(sorted)>> \o InsertByTsi(x, Tail(sorted))
         ELSE <<x>> \o sorted

RECURSIVE SortedByTsi(_)
SortedByTsi(s) ==
    IF s = <<>> THEN <<>>
    ELSE InsertByTsi(s[Len(s)], SortedByTsi(SubSeq(s, 1, Len(s) - 1)))

\* [p.name for p in s]
Names(s) == [i \in 1..Len(s) |-> s[i].name]

\* The lineup from the lists in squad order, not sorted.
lineup_in_squad_order(squad) ==
    LET gk == SelectSeq(squad, LAMBDA p : PositionValue[p.position] = <<"Goalkeeper">>)
    IN  [goalkeeper |-> IF gk # <<>> THEN gk[1].name ELSE <<"None">>,
         defenders |-> Names(Slice(Defenders(squad), 0, 4)),
         midfielders |-> Names(Slice(Midfielders(squad), 0, 4)),
         forwards |-> Names(Slice(Forwards(squad), 0, 2))]

\* Lines 123-144.  Lines 129-131 select with the tests of junior_squad.py's
\* lines 160-162.
_suggest_best_lineup(squad) ==
    LET gk == SortedByTsi(
                 SelectSeq(squad, LAMBDA p : PositionValue[p.position] = <<"Goalkeeper">>))
        defenders == SortedByTsi(Defenders(squad))
        midfielders == SortedByTsi(Midfielders(squad))
        forwards == SortedByTsi(Forwards(squad))
    IN  [goalkeeper |-> IF gk # <<>> THEN gk[1].name ELSE <<"None">>,
         defenders |-> Names(Slice(defenders, 0, 4)),
         midfielders |-> Names(Slice(midfielders, 0, 4)),
         forwards |-> Names(Slice(forwards, 0, 2))]

\* The longest squad of the calls: one more than the largest quota.
MaxLineup == 5

LineupPlayer(id, position, tsi) ==
    [TrainingPlayer(id, 24, SkillsOf(Absent, 6, 7, Absent, Absent), tsi)
        EXCEPT !.position = position]

\* A player of each position but the winger, and two central defenders.
LineupPlayers ==
    {LineupPlayer("1", "GK", 500), LineupPlayer("2", "CD", 100),
     LineupPlayer("3", "CD", 300), LineupPlayer("4", "IM", 200),
     LineupPlayer("5", "FW", 400), LineupPlayer("6", "WB", 900)}

InitLineup ==
    /\ ParserIdle
    /\ \E s \in SquadsUpTo(LineupPlayers, MaxLineup) :
          call = [fn |-> "_suggest_best_lineup", squad |-> s]
    /\ result = PendingList
    /\ frames = <<>>

CallSuggestBestLineup ==
    /\ call.fn = "_suggest_best_lineup"
    /\ result.exc = "<pending>"
    /\ result' = [exc |-> "", val |-> _suggest_best_lineup(call.squad)]
    /\ UNCHANGED <<call, frames, parserVars>>

NextLineup == CallSuggestBestLineup

SpecLineup == InitLineup /\ [][NextLineup]_vars

LineupDone == call.fn = "_suggest_best_lineup" /\ result.exc # "<pending>"

\* The group of each position by the labels: "Defender" is part of Central
\* Defender only and "Midfielder" of Inner Midfielder only.
LabelGroup ==
    ("GK" :> "goalkeeper") @@ ("CD" :> "defenders") @@ ("IM" :> "midfielders")
        @@ ("FW" :> "forwards") @@ ("WB" :> "") @@ ("WI" :> "")

Quota ==
    ("goalkeeper" :> 1) @@ ("defenders" :> 4) @@ ("midfielders" :> 4) @@ ("forwards" :> 2)

\* The names the lineup lists for a group.
Listed(group) ==
    IF group # "goalkeeper" THEN result.val[group]
    ELSE IF result.val.goalkeeper = <<"None">> THEN <<>>
    ELSE <<result.val.goalkeeper>>

\* The places of the squad held by the players of a group.
Members(group) == {i \in 1..Len(call.squad) : LabelGroup[call.squad[i].position] = group}

\* The tsi of the player of the squad with the name.
TsiOf(name) == (CHOOSE p \in {call.squad[i] : i \in 1..Len(call.squad)} : p.name = name).tsi

\* C22: the best lineup never raises, for the empty squad either; it lists at
\* most 1 goalkeeper, 4 defenders, 4 midfielders and 2 forwards, each group
\* the highest-tsi players of its position group in descending tsi order, all
\* of them when the group has fewer than its quota.
C22_BestLineup ==
    LineupDone =>
        /\ result.exc = ""
        /\ \A group \in DOMAIN Quota :
              LET listed == Listed(group)
              IN  /\ Len(listed) = Min2(Quota[group], Cardinality(Members(group)))
                  /\ \A i \in 1..Len(listed) :
                        /\ \E m \in Members(group) : call.squad[m].name = listed[i]
                        /\ Cardinality({k \in 1..Len(listed) : listed[k] = listed[i]})
                              <= Cardinality({m \in Members(group) :
                                                call.squad[m].name = listed[i]})
                        /\ i > 1 => TsiOf(listed[i - 1]) >= TsiOf(listed[i])
                        /\ Cardinality({m \in Members(group) :
                                          call.squad[m].tsi > TsiOf(listed[i])})
                              = Cardinality({k \in 1..Len(listed) :
                                               TsiOf(listed[k]) > TsiOf(listed[i])})

\* Five central defenders, the one with the higher tsi last in the squad: it
\* is listed first and one of the others is left out.
C22_Witness ==
    /\ LineupDone
    /\ Len(call.squad) = 5
    /\ \A i \in 1..4 : call.squad[i] = LineupPlayer("2", "CD", 100)
    /\ call.squad[5] = LineupPlayer("3", "CD", 300)
    /\ result.val.defenders = <<<<"P", "3">>, <<"P", "2">>, <<"P", "2">>, <<"P", "2">>>>
    /\ result.val.goalkeeper = <<"None">>

\* C30: each of the six positions belongs to exactly one of the four groups of
\* the lineup: no player is listed in two groups, and the player of a squad
\* of one is listed whatever its position, Wing Back and Winger included.
C30_EveryPositionInOneGroup ==
    LineupDone =>
        /\ \A g, h \in DOMAIN Quota :
              g # h => \A i \in 1..Len(Listed(g)), j \in 1..Len(Listed(h)) :
                          Listed(g)[i] # Listed(h)[j]
        /\ Len(call.squad) = 1 =>
              \E g \in DOMAIN Quota : Listed(g) = <<call.squad[1].name>>

----------------------------------------------------------------------------
(* cli/main.py: training_projection and junior_squad; junior_squad.py:     *)
(* simulate_training_impact                                                *)

\* junior_squad.py:148-156: int(weeks / 0.5) is 2 * weeks
_project_junior_skill(junior, training_type, weeks) ==
    Get(junior.skills, training_type, 0) + 2 * weeks

\* junior_squad.py:49-69
simulate_training_impact(juniors, training_type, weeks) ==
    [training_type |-> training_type,
     weeks |-> weeks,
     projections |->
         [i \in 1..Len(juniors) |->
             [player_id |-> juniors[i].id,
              name |-> juniors[i].name,
              current_skill |-> Get(juniors[i].skills, training_type, 0),
              projected_skill |-> _project_junior_skill(juniors[i], training_type, weeks),
              improvement |-> _project_junior_skill(juniors[i], training_type, weeks)
                                  - Get(juniors[i].skills, training_type, 0)]]]

\* `x or default` for an Optional[int]: None and 0 are falsy.
IntOr(x, default) == IF x.defined /\ x.val # 0 THEN x.val ELSE default

\* `args.training or "playmaking"`: None and "" are falsy.
TrainingOr(training, default) == IF training \in {"<None>", ""} THEN default ELSE training

\* What a handler leaves: the operation it ran and with which number, what it
\* printed, and its exit, SystemExit(1) from sys.exit(1).
Exit1(stderr, ran) ==
    [exc |-> "SystemExit", val |-> [code |-> 1, stderr |-> stderr, ran |-> ran, results |-> <<>>]]

Exit0(ran, results) ==
    [exc |-> "", val |-> [code |-> 0, stderr |-> "", ran |-> ran, results |-> results]]

NothingRan == <<"", 0>>

\* The except clauses of lines 107-115 and 146-154 for an exception of the try
\* block.
HandlerExit(exc, ran) ==
    IF exc \in {"FileNotFoundError", "ValueError", "PermissionError"}
    THEN Exit1("Error", ran)
    ELSE Exit1("Unexpected error", ran)

\* main.py:84-115, without --output.  `file` is what parse_players_csv(args.file)
\* does: [exc |-> the exception it raises or "", players |-> the list it returns].
training_projection(args) ==
    IF args.file.exc # "" THEN HandlerExit(args.file.exc, NothingRan)
    ELSE
    LET current_training == TrainingOr(args.training, "playmaking")
    IN  IF args.compare
        THEN Exit0(<<"compare_training_types", 0>>,
                   compare_training_types(current_training, args.file.players).val)
        ELSE IF args.near_skillup
        THEN Exit0(<<"find_players_near_skillup", 0>>,
                   find_players_near_skillup(current_training, args.file.players).val)
        ELSE LET weeks == IntOr(args.weeks, 4)
             IN  IF weeks < 1 \/ weeks > 52 THEN HandlerExit("ValueError", NothingRan)
                 ELSE LET results ==
                              project_skill_ups(current_training, args.file.players, weeks)
                      IN  IF results.exc # ""
                          THEN HandlerExit(results.exc, <<"project_skill_ups", weeks>>)
                          ELSE Exit0(<<"project_skill_ups", weeks>>, results.val)

\* main.py:118-154, without --output
junior_squad(args) ==
    IF args.file.exc # "" THEN HandlerExit(args.file.exc, NothingRan)
    ELSE
    IF args.promotions
    THEN LET max_promotions == IntOr(args.max, 3)
         IN  IF max_promotions < 1 \/ max_promotions > 20
             THEN HandlerExit("ValueError", NothingRan)
             ELSE Exit0(<<"recommend_promotions", max_promotions>>,
                        recommend_promotions(args.file.players, max_promotions))
    ELSE IF args.simulate
    THEN LET weeks == IntOr(args.weeks, 4)
         IN  IF weeks < 1 \/ weeks > 52 THEN HandlerExit("ValueError", NothingRan)
             ELSE Exit0(<<"simulate_training_impact", weeks>>,
                        simulate_training_impact(
                            args.file.players, TrainingOr(args.training, "playmaking"), weeks))
    ELSE IF args.formations
    THEN Exit0(<<"compare_formations", 0>>, compare_formations(args.file.players))
    ELSE Exit0(<<"analyze_potential", 0>>, analyze_potential(args.file.players))

\* -w and -m: not given, or an int on both sides of the limits and on them.
WeeksArgs == {NoInt} \cup {SomeInt(w) : w \in {0 - 1, 0, 1, 52, 53}}

MaxArgs == {NoInt} \cup {SomeInt(m) : m \in {0 - 1, 0, 1, 20, 21}}

\* A file that is not there, and files of no, one and two players.
TrainingFiles ==
    {[exc |-> "FileNotFoundError", players |-> <<>>]}
        \cup {[exc |-> "", players |-> s] :
                s \in SquadsUpTo({TrainingPlayer("3", 20, SkillsOf(1, 8, 3, 3, 2), 1500),
                                  TrainingPlayer("1", 17, SkillsOf(2, 4, 5, 3, 9), 1000)},
                                 MaxSquad)}

JuniorFiles ==
    {[exc |-> "FileNotFoundError", players |-> <<>>]}
        \cup {[exc |-> "", players |-> s] :
                s \in SquadsUpTo({j \in JuniorAnalysisPool : j.age = 16}, MaxSquad)}

InitCli ==
    /\ ParserIdle
    /\ \/ \E f \in TrainingFiles, t \in {"<None>", "defending"}, w \in WeeksArgs,
             c \in BOOLEAN, n \in BOOLEAN :
             call = [fn |-> "training_projection",
                     args |-> [file |-> f, training |-> t, weeks |-> w, compare |-> c,
                               near_skillup |-> n]]
       \/ \E f \in JuniorFiles, t \in {"<None>", "defending"}, w \in WeeksArgs,
             m \in MaxArgs, p \in BOOLEAN, s \in BOOLEAN, fo \in BOOLEAN :
             call = [fn |-> "junior_squad",
                     args |-> [file |-> f, training |-> t, weeks |-> w, max |-> m,
                               promotions |-> p, simulate |-> s, formations |-> fo]]
    /\ result = PendingList
    /\ frames = <<>>

CallTrainingProjection ==
    /\ call.fn = "training_projection"
    /\ result.exc = "<pending>"
    /\ result' = training_projection(call.args)
    /\ UNCHANGED <<call, frames, parserVars>>

CallJuniorSquad ==
    /\ call.fn = "junior_squad"
    /\ result.exc = "<pending>"
    /\ result' = junior_squad(call.args)
    /\ UNCHANGED <<call, frames, parserVars>>

NextCli ==
    \/ CallTrainingProjection
    \/ CallJuniorSquad

SpecCli == InitCli /\ [][NextCli]_vars

CliDone == call.fn \in {"training_projection", "junior_squad"} /\ result.exc # "<pending>"

\* The invocation asks for an analysis that takes the week count.
WeeksUsed ==
    \/ call.fn = "training_projection" /\ ~call.args.compare /\ ~call.args.near_skillup
    \/ call.fn = "junior_squad" /\ ~call.args.promotions /\ call.args.simulate

Aborted == result.exc = "SystemExit" /\ result.val.code # 0 /\ result.val.ran = NothingRan

\* C23: a supplied week count outside 1..52, zero and negative included, of a
\* training projection or a junior simulation, and a supplied promotion cap
\* outside 1..20, zero included, abort the invocation with an error and a
\* non-zero exit, and no analysis is run with another value in its place.
C23_BoundsEnforced ==
    CliDone =>
        /\ (WeeksUsed /\ call.args.weeks.defined /\ call.args.weeks.val \notin 1..52)
              => Aborted
        /\ (call.fn = "junior_squad" /\ call.args.promotions /\ call.args.max.defined
                /\ call.args.max.val \notin 1..20)
              => Aborted

----------------------------------------------------------------------------
(* team_snapshot.py: generate_snapshot; player_insights.py: analyze_all;   *)
(* the public operations on one list of players                            *)

\* [f(p) for p in squad] for the int fields
Field(squad, name) == [i \in 1..Len(squad) |-> squad[i][name]]

\* team_snapshot.py:31-35, as the fraction [num, den]
_calculate_average_age(squad) ==
    IF squad = <<>> THEN [num |-> 0, den |-> 1]
    ELSE [num |-> Sum(Field(squad, "age")), den |-> Len(squad)]

\* team_snapshot.py:45-51: the count of each position that occurs
_analyze_positions(squad) ==
    [p \in {squad[i].position : i \in 1..Len(squad)} |->
        Cardinality({i \in 1..Len(squad) : squad[i].position = p})]

\* team_snapshot.py:91-104: of each skill that occurs, the sum over the
\* players that have it and their number, as the fraction [num, den]
_calculate_average_skills(squad) ==
    [skill \in UNION {DOMAIN squad[i].skills : i \in 1..Len(squad)} |->
        LET having == SelectSeq(squad, LAMBDA p : skill \in DOMAIN p.skills)
        IN  [num |-> Sum([i \in 1..Len(having) |-> having[i].skills[skill]]),
             den |-> Len(having)]]

\* avg_skills.get(skill, 0)
AverageSkill(avg_skills, skill) ==
    IF skill \in DOMAIN avg_skills THEN avg_skills[skill] ELSE [num |-> 0, den |-> 1]

\* team_snapshot.py:53-70
_identify_strengths(squad) ==
    LET avg_skills == _calculate_average_skills(squad)
        Above12(skill) ==
            AverageSkill(avg_skills, skill).num > 12 * AverageSkill(avg_skills, skill).den
        strengths ==
            (IF Above12("defending") THEN <<"Strong defense">> ELSE <<>>)
            \o (IF Above12("playmaking") THEN <<"Good midfield control">> ELSE <<>>)
            \o (IF Above12("scoring") THEN <<"Strong attack">> ELSE <<>>)
            \o (IF _calculate_average_age(squad).num < 24 * _calculate_average_age(squad).den
                THEN <<"Young squad with potential">> ELSE <<>>)
    IN  IF strengths # <<>> THEN strengths ELSE <<"Balanced team">>

\* team_snapshot.py:72-89
_identify_weaknesses(squad) ==
    LET avg_skills == _calculate_average_skills(squad)
        position_dist == _analyze_positions(squad)
        Below10(skill) ==
            AverageSkill(avg_skills, skill).num < 10 * AverageSkill(avg_skills, skill).den
    IN  (IF Below10("defending") THEN <<"Weak defense">> ELSE <<>>)
        \o (IF Below10("playmaking") THEN <<"Weak midfield">> ELSE <<>>)
        \o (IF Below10("scoring") THEN <<"Weak attack">> ELSE <<>>)
        \o (IF "GK" \notin DOMAIN position_dist THEN <<"Missing goalkeeper">> ELSE <<>>)

\* team_snapshot.py:106-121
_tactical_recommendations(squad) ==
    LET weaknesses == _identify_weaknesses(squad)
        Has(w) == \E i \in 1..Len(weaknesses) : weaknesses[i] = w
    IN  (IF Has("Weak defense")
         THEN <<"Consider training defending or buying defenders">> ELSE <<>>)
        \o (IF Has("Weak midfield") THEN <<"Focus on playmaking training">> ELSE <<>>)
        \o (IF Has("Weak attack") THEN <<"Train scoring or invest in forwards">> ELSE <<>>)
        \o (IF weaknesses = <<>>
            THEN <<"Team is well balanced - focus on maintaining form">> ELSE <<>>)

\* team_snapshot.py:17-29; total_salary in tenths
generate_snapshot(squad) ==
    [total_players |-> Len(squad),
     average_age |-> _calculate_average_age(squad),
     total_salary |-> Sum(Field(squad, "salary")),
     total_tsi |-> Sum(Field(squad, "tsi")),
     position_distribution |-> _analyze_positions(squad),
     strengths |-> _identify_strengths(squad),
     weaknesses |-> _identify_weaknesses(squad),
     tactical_recommendations |-> _tactical_recommendations(squad),
     best_lineup |-> _suggest_best_lineup(squad)]

\* player_insights.py:42-44: the first exception ends the call
analyze_all(squad) ==
    IF \E i \in 1..Len(squad) : analyze_player(squad[i]).exc # ""
    THEN [exc |-> analyze_player(
                      squad[CHOOSE i \in 1..Len(squad) :
                                /\ analyze_player(squad[i]).exc # ""
                                /\ \A j \in 1..(i - 1) : analyze_player(squad[j]).exc = ""]).exc,
          val |-> <<>>]
    ELSE [exc |-> "", val |-> [i \in 1..Len(squad) |-> analyze_player(squad[i]).val]]

\* self.players sorted where it stands.
self_players_sorted_in_place(squad) == SortedByTsi(squad)

\* team_snapshot.py:128-137: the lists that .sort() orders are the new lists of
\* the comprehensions, so self.players is as it was.  No other statement of
\* the four modules assigns to the list, to a Player or to a skills dict.
self_players_after_sort(squad) == squad

\* The public operations of PlayerInsights, TeamSnapshot, TrainingProjection
\* and JuniorSquadAnalyzer, with their arguments.
PublicCalls ==
    {[fn |-> f] : f \in {"analyze_all", "generate_snapshot", "analyze_potential",
                         "compare_formations"}}
    \cup {[fn |-> f, current_training |-> t] :
            f \in {"compare_training_types", "find_players_near_skillup"},
            t \in {"playmaking", "defending"}}
    \cup {[fn |-> "project_skill_ups", current_training |-> t, weeks |-> w] :
            t \in {"playmaking", "defending"}, w \in {1, 4}}
    \cup {[fn |-> "simulate_training_impact", training_type |-> t, weeks |-> w] :
            t \in {"playmaking", "defending"}, w \in {1, 4}}
    \cup {[fn |-> "recommend_promotions", max_promotions |-> n] : n \in 1..MaxPromotions}

\* What the call returns on the squad, or the exception it raises.
PublicOperation(c, squad) ==
    CASE c.fn = "analyze_all" -> analyze_all(squad)
      [] c.fn = "generate_snapshot" -> [exc |-> "", val |-> generate_snapshot(squad)]
      [] c.fn = "analyze_potential" -> [exc |-> "", val |-> analyze_potential(squad)]
      [] c.fn = "compare_formations" -> [exc |-> "", val |-> compare_formations(squad)]
      [] c.fn = "compare_training_types" -> compare_training_types(c.current_training, squad)
      [] c.fn = "find_players_near_skillup" ->
            find_players_near_skillup(c.current_training, squad)
      [] c.fn = "project_skill_ups" -> project_skill_ups(c.current_training, squad, c.weeks)
      [] c.fn = "simulate_training_impact" ->
            [exc |-> "", val |-> simulate_training_impact(squad, c.training_type, c.weeks)]
      [] c.fn = "recommend_promotions" ->
            [exc |-> "", val |-> recommend_promotions(squad, c.max_promotions)]

\* Players of 17 and 24, of three positions, with different tsi.
FramePlayers ==
    {LineupPlayer("1", "GK", 500), LineupPlayer("2", "CD", 100),
     LineupPlayer("3", "CD", 300), TrainingPlayer("1", 17, SkillsOf(2, 4, 5, 3, 9), 1000)}

\* parse_players_csv has returned the list and no operation has been called.
InitFrame ==
    /\ pc = "done"
    /\ file_status = "ok"
    /\ header = <<>>
    /\ rows = <<>>
    /\ players \in SquadsUpTo(FramePlayers, MaxSquad)
    /\ diagnostics = <<>>
    /\ parsed = <<>>
    /\ is_youth_format = FALSE
    /\ col_indices = <<>>
    /\ call = [fn |-> "<none>"]
    /\ result = PendingList
    /\ frames = <<>>

\* One public operation is called on the list.
CallPublicOperation ==
    /\ pc = "done"
    /\ \E c \in PublicCalls :
          /\ call' = c
          /\ result' = PublicOperation(c, players)
          /\ players' = IF c.fn = "generate_snapshot"
                        THEN self_players_after_sort(players)
                        ELSE players
    /\ UNCHANGED <<pc, file_status, header, rows, diagnostics, parsed, is_youth_format,
                   col_indices, frames>>

NextFrame == CallPublicOperation

SpecFrame == InitFrame /\ [][NextFrame]_vars

====
